---- MODULE Spec2Model ----
(***************************************************************************)
(* The ledger-scanning engine of full-service: the scan worker             *)
(* (SyncThread, sync_all_accounts, sync_account_next_chunk), the webhook   *)
(* worker (WebhookThread) and the shared Deposit Set, over an append-only  *)
(* ledger and the wallet store.                                            *)
(*                                                                         *)
(* sync.rs calls the wallet store through crate::db::{account, txo,        *)
(* transaction_log, exclusive_transaction}; those modules are not among    *)
(* the source files, so the store operations the engine calls are modelled *)
(* from their contracts in the specification (section 4.3).  The older     *)
(* store API WalletDb (src/src/db.rs) is modelled separately, on its own   *)
(* tables (the db_* variables), from its code.                             *)
(***************************************************************************)
EXTENDS Integers, Sequences, FiniteSets, TLC

\* ------------------------------------------------------------------ bounds

\* The ledger holds at most MaxBlocks blocks (it only grows).
MaxBlocks == 3
\* A caller of create_account / import_account chooses first_block None or
\* Some(n), n in 1..MaxFirstBlock.
MaxFirstBlock == 1
\* At most MaxLogs transactions are submitted.
MaxLogs == 1
\* At most MaxDbCalls calls are made on WalletDb.
MaxDbCalls == 4
\* The ledger of the specification with two accounts and a submitted
\* transaction holds at most MaxTxBlocks blocks.
MaxTxBlocks == 4
\* A rewind is requested only while fewer than MaxUnposted Deposit Set
\* inserts of the account await their POST: every rescan that finds Txos
\* raises that count again.
MaxUnposted == 2
\* create_assigned_subaddress assigns the indices up to MaxSubaddress.
MaxSubaddress == 7

\* mc_transaction_core::constants::MINIMUM_FEE, scaled to the values of
\* TxOuts: one output is worth less than the fee, the others are not.
MINIMUM_FEE == 2
\* The number of blocks a chunk step reads at most: BLOCKS_CHUNK_SIZE of
\* sync.rs (1_000 there), bounded so that a chunk boundary falls inside a
\* ledger of MaxBlocks blocks.
BLOCKS_CHUNK_SIZE == 2

\* mc_account_keys' subaddress indices, as create_account passes them.
DEFAULT_SUBADDRESS_INDEX == 0
DEFAULT_CHANGE_SUBADDRESS_INDEX == 1
\* first_block.unwrap_or(DEFAULT_FIRST_BLOCK)
DEFAULT_FIRST_BLOCK == 0

\* ---------------------------------------------------------------- universe

\* Option<T>: None is the empty set, Some(x) the singleton.
None == {}
Some(x) == {x}
IsSome(o) == o # {}
Unwrap(o) == CHOOSE x \in o : TRUE

AccountIds == {"a", "b"}

\* The transaction outputs that may ever be minted.  pk is the output's
\* one-time public key (unique on chain); owner and sub say whose view key
\* decrypts the masked amount and which subaddress the target key belongs to;
\* sub 7 is a subaddress no account has assigned.
TxOuts ==
    { [pk |-> 1, owner |-> "a", sub |-> 0, value |-> 5],
      [pk |-> 2, owner |-> "a", sub |-> 0, value |-> 3],
      [pk |-> 3, owner |-> "b", sub |-> 0, value |-> 2],
      [pk |-> 4, owner |-> "a", sub |-> 7, value |-> 1] }

\* An output whose public key is not a point of the curve; its other fields
\* are those of an output to a's main subaddress.
MalformedTxOuts == { [pk |-> 0, owner |-> "a", sub |-> 0, value |-> 9] }

\* TxoID::from(&TxOut): a digest of the whole output, injective on its content.
TxoID(tx_out) == <<tx_out.pk, tx_out.owner, tx_out.sub, tx_out.value>>

\* KeyImage::from(recover_onetime_private_key(tx_public_key, view_private_key,
\* subaddress_spend_private)): the kernel's function of the three keys.
KeyImageOf(tx_public_key, view_private_key, subaddress_spend_private) ==
    <<tx_public_key, view_private_key, subaddress_spend_private>>

\* The key image the owner of an output publishes when spending it.
SpendKeyImage(tx_out) == KeyImageOf(tx_out.pk, tx_out.owner, <<tx_out.owner, tx_out.sub>>)

VARIABLES
    ledger,                 \* LedgerDB: the sequence of blocks, block index i at ledger[i + 1]
    accounts,               \* accounts table: account id -> row
    assigned_subaddresses,  \* assigned_subaddresses table: set of <<account id, index>>
    txos,                   \* txos table: txo id -> row
    transaction_logs,       \* transaction_logs table: sequence of rows
    accounts_with_deposits, \* the Deposit Set: account id -> bool
    sync_pc,                \* scan worker: "loop" | "for" | "stopped" | "panicked"
    sync_num_blocks,        \* sync_all_accounts: num_blocks
    sync_accounts,          \* sync_all_accounts: the accounts of the for loop still to visit
    chunk_return,           \* the last direct call of sync_account_next_chunk returned:
                            \* <<"none">> | <<"Ok", num_received_txos>> |
                            \* <<"Err">> (no account row) | <<"Err", "aborted">>
    sync_stop_requested,    \* SyncThread.stop_requested
    webhook_pc,             \* webhook worker: "loop" | "remove" | "stopped"
    accounts_to_send,       \* WebhookThread::start: accounts_to_send
    removed,                \* WebhookThread::start: the keys of accounts_to_send already removed
    webhook_stop_requested, \* WebhookThread.stop_requested
    last_post,              \* the accounts list of the POST made by the last webhook step
    post_response,          \* what the POST of the last webhook step came back with
    restart,                \* the restart flag the application shares with both workers
    unposted,               \* account id -> its Deposit Set inserts minus the POSTs that named it
    db_accounts,            \* WalletDb: accounts table
    db_assigned_subaddresses, \* WalletDb: assigned_subaddresses table
    db_txos,                \* WalletDb: txos table
    db_account_txo_statuses, \* WalletDb: account_txo_statuses table, <<account id, txo id>> -> row
    db_result,              \* WalletDb: the last call and what it returned
    db_calls,               \* WalletDb: the number of calls made
    gift_code_result        \* GiftCodeService: the last call, its gift code and what it returned

store_vars == <<accounts, assigned_subaddresses, txos, transaction_logs>>
sync_vars == <<sync_pc, sync_num_blocks, sync_accounts, chunk_return>>
webhook_vars == <<webhook_pc, accounts_to_send, removed, last_post, post_response>>
stop_vars == <<sync_stop_requested, webhook_stop_requested, restart>>
db_vars == <<db_accounts, db_assigned_subaddresses, db_txos, db_account_txo_statuses,
             db_result, db_calls>>
gift_vars == <<gift_code_result>>
engine_vars == <<ledger, store_vars, accounts_with_deposits, sync_vars, webhook_vars,
                 stop_vars, unposted>>
vars == <<ledger, store_vars, accounts_with_deposits, sync_vars, webhook_vars,
          stop_vars, unposted, db_vars, gift_vars>>

\* ------------------------------------------------------------------ ledger

\* ledger_db.num_blocks()
num_blocks == Len(ledger)

LedgerOutputs == UNION {ledger[i].outputs : i \in 1..Len(ledger)}
LedgerKeyImages == UNION {ledger[i].key_images : i \in 1..Len(ledger)}

\* The block index an output was added at.
BlockOf(tx_out) == CHOOSE i \in 0..(Len(ledger) - 1) : tx_out \in ledger[i + 1].outputs

\* ------------------------------------------------- wallet store (db models)

NoneTxo == [account_id |-> None, value |-> 0, subaddress_index |-> None,
            key_image |-> None, received_block_index |-> None,
            spent_block_index |-> None]

\* An insert that leaves a row that exists as it is.
Txo_create_received_KeepExisting(table, tx_out, subaddress_index, key_image, amount, block_index, account_id_hex) ==
    LET id == TxoID(tx_out)
        row == [NoneTxo EXCEPT !.account_id = Some(account_id_hex),
                               !.value = amount,
                               !.subaddress_index = subaddress_index,
                               !.key_image = key_image,
                               !.received_block_index = Some(block_index)]
    IN [i \in DOMAIN table \cup {id} |-> IF i \in DOMAIN table THEN table[i] ELSE row]

\* Txo::create_received: an upsert on the Txo id.  A new row is unspent (or
\* orphaned, without subaddress); an existing row (minted by this wallet, or
\* scanned before) gets the received fields and keeps its spent_block_index.
Txo_create_received(table, tx_out, subaddress_index, key_image, amount, block_index, account_id_hex) ==
    LET id == TxoID(tx_out)
        old == IF id \in DOMAIN table THEN table[id] ELSE NoneTxo
        row == [old EXCEPT !.account_id = Some(account_id_hex),
                           !.value = amount,
                           !.subaddress_index = subaddress_index,
                           !.key_image = key_image,
                           !.received_block_index = Some(block_index)]
    IN [i \in DOMAIN table \cup {id} |-> IF i = id THEN row ELSE table[i]]

\* Txo::list_unspent_or_pending_key_images: key_image -> txo id over the
\* account's Txos that have a key image and no spent_block_index.  It is
\* collected into a map, which keeps one Txo per key image.
Txo_list_unspent_or_pending_key_images(table, account_id_hex) ==
    LET mine == {id \in DOMAIN table :
                    /\ table[id].account_id = Some(account_id_hex)
                    /\ IsSome(table[id].key_image)
                    /\ table[id].spent_block_index = None}
        kis == {Unwrap(table[id].key_image) : id \in mine}
    IN [k \in kis |-> CHOOSE id \in mine : table[id].key_image = Some(k)]

\* Txo::update_spent_block_index
Txo_update_spent_block_index(table, txo_id_hex, block_index) ==
    [table EXCEPT ![txo_id_hex].spent_block_index = Some(block_index)]

\* TransactionLog::update_pending_associated_with_txo_to_succeeded: every
\* pending log that has the Txo as an input is succeeded at block_index.
TransactionLog_update_pending_associated_with_txo_to_succeeded(logs, txo_id_hex, block_index) ==
    [n \in DOMAIN logs |->
        IF logs[n].status = "pending" /\ txo_id_hex \in logs[n].input_txos
        THEN [logs[n] EXCEPT !.status = "succeeded",
                             !.finalized_block_index = Some(block_index)]
        ELSE logs[n]]

\* TransactionLog::update_pending_exceeding_tombstone_block_index_to_failed:
\* every pending log (of any account) whose tombstone is below block_index.
TransactionLog_update_pending_exceeding_tombstone_block_index_to_failed(logs, block_index) ==
    [n \in DOMAIN logs |->
        IF logs[n].status = "pending" /\ logs[n].tombstone_block_index < block_index
        THEN [logs[n] EXCEPT !.status = "failed"]
        ELSE logs[n]]

\* Account::update_next_block_index
Account_update_next_block_index(table, account_id_hex, next_block_index) ==
    [table EXCEPT ![account_id_hex].next_block_index = next_block_index]

\* Account::update_resyncing; an update of a row that is gone changes nothing.
Account_update_resyncing(table, account_id_hex, resyncing) ==
    IF account_id_hex \in DOMAIN table
    THEN [table EXCEPT ![account_id_hex].resyncing = resyncing]
    ELSE table

\* The derived txo_status of a row (section 3 of the specification).
TxoIsSpent(table, id) == IsSome(table[id].spent_block_index)
TxoIsPending(table, logs, id) ==
    /\ ~TxoIsSpent(table, id)
    /\ \E n \in DOMAIN logs : logs[n].status = "pending" /\ id \in logs[n].input_txos
TxoIsSecreted(table, logs, id) ==
    /\ ~TxoIsSpent(table, id) /\ ~TxoIsPending(table, logs, id)
    /\ table[id].received_block_index = None
TxoIsOrphaned(table, logs, id) ==
    /\ ~TxoIsSpent(table, id) /\ ~TxoIsPending(table, logs, id)
    /\ IsSome(table[id].received_block_index)
    /\ table[id].subaddress_index = None
TxoIsUnspent(table, logs, id) ==
    /\ ~TxoIsSpent(table, id) /\ ~TxoIsPending(table, logs, id)
    /\ IsSome(table[id].received_block_index)
    /\ IsSome(table[id].subaddress_index)

\* The txo_status of a row.
TxoStatusOf(table, logs, id) ==
    IF TxoIsSpent(table, id) THEN "spent"
    ELSE IF TxoIsPending(table, logs, id) THEN "pending"
    ELSE IF TxoIsSecreted(table, logs, id) THEN "secreted"
    ELSE IF TxoIsOrphaned(table, logs, id) THEN "orphaned"
    ELSE "unspent"

\* Txo::list_by_status
Txo_list_by_status(table, logs, account_id_hex, status) ==
    {id \in DOMAIN table :
        /\ table[id].account_id = Some(account_id_hex)
        /\ TxoStatusOf(table, logs, id) = status}

\* .iter().map(|t| t.value as u128).sum::<u128>()
RECURSIVE SumValues(_, _)
SumValues(table, ids) ==
    IF ids = {} THEN 0
    ELSE LET id == CHOOSE i \in ids : TRUE
         IN table[id].value + SumValues(table, ids \ {id})

\* WalletService::get_balance: the balance of one status.
get_balance(table, logs, account_id_hex, status) ==
    SumValues(table, Txo_list_by_status(table, logs, account_id_hex, status))

\* ---------------------------------------------------- sync.rs: decoding

\* The view private key of an account (AccountKey / ViewAccountKey decoded
\* from account.account_key) and the spend key of one of its subaddresses.
ViewPrivateKey(account_id_hex) == account_id_hex
SubaddressSpendKey(account_id_hex, subaddress_index) ==
    <<account_id_hex, subaddress_index>>

\* RistrettoPublic::try_from(&tx_out.public_key) is Ok: the bytes are a point
\* of the curve.  The public keys of TxOuts are; 0 stands for bytes that are
\* not.
IsCurvePoint(public_key) == public_key > 0

\* An amount that decrypts under any view key.
decode_amount_AnyKey(tx_out, view_private_key) == Some(tx_out.value)

\* An amount decrypted without looking at the output's public key.
decode_amount_AnyPoint(tx_out, view_private_key) ==
    IF tx_out.owner = view_private_key THEN Some(tx_out.value) ELSE None

\* decode_amount: None when the output's public key is not a curve point;
\* Some(amount) when the masked amount decrypts under the shared secret of
\* the view private key and the output's public key.
decode_amount(tx_out, view_private_key) ==
    IF ~IsCurvePoint(tx_out.pk) THEN None
    ELSE IF tx_out.owner = view_private_key THEN Some(tx_out.value) ELSE None

\* recover_public_subaddress_spend_key: the spend key the output's target key
\* was built from, when the view key is the recipient's.
recover_public_subaddress_spend_key(view_private_key, tx_out) ==
    IF tx_out.owner = view_private_key
    THEN SubaddressSpendKey(tx_out.owner, tx_out.sub)
    ELSE SubaddressSpendKey("nobody", tx_out.pk)

\* decode_subaddress_index:
\* AssignedSubaddress::find_by_subaddress_spend_public_key(..).ok()
decode_subaddress_index(tx_out, view_private_key, subaddresses) ==
    LET k == recover_public_subaddress_spend_key(view_private_key, tx_out)
    IN IF ~IsCurvePoint(tx_out.pk) THEN None
       ELSE IF k \in subaddresses THEN Some(k[2]) ELSE None

\* A key image made from the subaddress keys alone, without the output's
\* public key.
OnetimeKeyImage_OfSubaddress(tx_out, account_key, subaddress_i) ==
    KeyImageOf(0, ViewPrivateKey(account_key),
               SubaddressSpendKey(account_key, subaddress_i))

\* The key image of decode_subaddress_and_key_image, for a found subaddress.
OnetimeKeyImage(tx_out, account_key, subaddress_i) ==
    KeyImageOf(tx_out.pk, ViewPrivateKey(account_key),
               SubaddressSpendKey(account_key, subaddress_i))

\* A key image derived for every output, whether or not its subaddress was
\* found.
decode_subaddress_and_key_image_AlwaysKeyImage(tx_out, account_key, subaddresses) ==
    <<decode_subaddress_index(tx_out, ViewPrivateKey(account_key), subaddresses),
      Some(OnetimeKeyImage(tx_out, account_key, tx_out.sub))>>

\* decode_subaddress_and_key_image: <<subaddress_index, key_image>>
decode_subaddress_and_key_image(tx_out, account_key, subaddresses) ==
    LET subaddress_index ==
            decode_subaddress_index(tx_out, ViewPrivateKey(account_key), subaddresses)
    IN <<subaddress_index,
         IF IsSome(subaddress_index)
         THEN Some(OnetimeKeyImage(tx_out, account_key, Unwrap(subaddress_index)))
         ELSE None>>

\* ----------------------------------- sync.rs: sync_account_next_chunk

SetMax(S) == CHOOSE x \in S : \A y \in S : y <= x

\* A read loop with an inclusive upper bound.
BlocksRead_OneMore(start) ==
    {i \in start..(start + BLOCKS_CHUNK_SIZE) : i < num_blocks}

\* for block_index in start..start + BLOCKS_CHUNK_SIZE: the block indices
\* get_block_contents finds before the first NotFound.
BlocksRead(start) ==
    {i \in start..(start + BLOCKS_CHUNK_SIZE - 1) : i < num_blocks}

\* tx_outs and key_images: <<block_index, tx_out>> and <<block_index, key_image>>
ChunkTxOuts(blocks) ==
    UNION {{<<i, o>> : o \in ledger[i + 1].outputs} : i \in blocks}
ChunkKeyImages(blocks) ==
    UNION {{<<i, k>> : k \in ledger[i + 1].key_images} : i \in blocks}

\* Received outputs decoded as for a full account, whatever the account is.
ReceivedTxos_IgnoreViewOnly(tx_outs, account_id_hex, view_only, subaddresses) ==
    {<<p[1], p[2], Unwrap(decode_amount(p[2], ViewPrivateKey(account_id_hex))),
       decode_subaddress_and_key_image(p[2], account_id_hex, subaddresses)[1],
       decode_subaddress_and_key_image(p[2], account_id_hex, subaddresses)[2]>> :
     p \in {q \in tx_outs : IsSome(decode_amount(q[2], ViewPrivateKey(account_id_hex)))}}

\* received_txos_with_subaddresses_and_key_images (for a view-only account:
\* received_txos_with_subaddresses, written with key image None):
\* <<block_index, tx_out, amount, subaddress_index, key_image>>
ReceivedTxos(tx_outs, account_id_hex, view_only, subaddresses) ==
    {<<p[1], p[2], Unwrap(decode_amount(p[2], ViewPrivateKey(account_id_hex))),
       IF view_only
       THEN decode_subaddress_index(p[2], ViewPrivateKey(account_id_hex), subaddresses)
       ELSE decode_subaddress_and_key_image(p[2], account_id_hex, subaddresses)[1],
       IF view_only
       THEN None
       ELSE decode_subaddress_and_key_image(p[2], account_id_hex, subaddresses)[2]>> :
     p \in {q \in tx_outs : IsSome(decode_amount(q[2], ViewPrivateKey(account_id_hex)))}}

\* for (..) in received: Txo::create_received(..)?
RECURSIVE WriteReceived(_, _, _)
WriteReceived(table, received, account_id_hex) ==
    IF received = {} THEN table
    ELSE LET r == CHOOSE r \in received : TRUE
         IN WriteReceived(
                Txo_create_received(table, r[2], r[4], r[5], r[3], r[1], account_id_hex),
                received \ {r}, account_id_hex)

\* spent_txos: <<block_index, txo_id_hex>> for the chunk's key images found in
\* unspent_key_images.
SpentTxos(key_images, unspent_key_images) ==
    {<<p[1], unspent_key_images[p[2]]>> :
        p \in {q \in key_images : q[2] \in DOMAIN unspent_key_images}}

\* A spend phase that marks the Txos and leaves the logs alone.
RECURSIVE WriteSpent_TxoOnly(_, _)
WriteSpent_TxoOnly(st, spent_txos) ==
    IF spent_txos = {} THEN st
    ELSE LET s == CHOOSE s \in spent_txos : \A t \in spent_txos : s[1] <= t[1]
         IN WriteSpent_TxoOnly(
                [st EXCEPT !.txos = Txo_update_spent_block_index(st.txos, s[2], s[1])],
                spent_txos \ {s})

\* for (block_index, txo_id_hex) in &spent_txos: update_spent_block_index and
\* update_pending_associated_with_txo_to_succeeded
RECURSIVE WriteSpent(_, _)
WriteSpent(st, spent_txos) ==
    IF spent_txos = {} THEN st
    ELSE LET s == CHOOSE s \in spent_txos : \A t \in spent_txos : s[1] <= t[1]
         IN WriteSpent(
                [st EXCEPT
                    !.txos = Txo_update_spent_block_index(st.txos, s[2], s[1]),
                    !.transaction_logs =
                        TransactionLog_update_pending_associated_with_txo_to_succeeded(
                            st.transaction_logs, s[2], s[1])],
                spent_txos \ {s})

\* A cursor set to the last block the step read.
ChunkNextBlockIndex_End(start_block_index, end_block_index) == end_block_index

\* A cursor left where the step started.
ChunkNextBlockIndex_Stay(start_block_index, end_block_index) == start_block_index

\* A cursor set to the number of blocks the step read.
ChunkNextBlockIndex_BlocksRead(start_block_index, end_block_index) ==
    end_block_index - start_block_index + 1

\* account.update_next_block_index(end_block_index + 1, conn)
ChunkNextBlockIndex(start_block_index, end_block_index) == end_block_index + 1

\* A sweep called one block further on.
TombstoneSweepIndex_Ahead(end_block_index) == end_block_index + 2

\* A sweep that stops two blocks short of the chunk's end.
TombstoneSweepIndex_Behind(end_block_index) == end_block_index - 1

\* The block index the tombstone sweep is called with:
\* update_pending_exceeding_tombstone_block_index_to_failed(end_block_index + 1, conn)
TombstoneSweepIndex(end_block_index) == end_block_index + 1

\* A spend phase that reads the unspent key images before the receive phase
\* writes its rows.
ReceiveThenSpend_SpendFirst(st, received, key_images, account_id_hex) ==
    LET unspent_key_images ==
            Txo_list_unspent_or_pending_key_images(st.txos, account_id_hex)
        spent == WriteSpent(st, SpentTxos(key_images, unspent_key_images))
    IN [spent EXCEPT !.txos = WriteReceived(spent.txos, received, account_id_hex)]

\* The receive phase, then the spend phase on the rows the receive phase
\* wrote: the store after both.
ReceiveThenSpend(st, received, key_images, account_id_hex) ==
    LET written == [st EXCEPT !.txos = WriteReceived(st.txos, received, account_id_hex)]
        unspent_key_images ==
            Txo_list_unspent_or_pending_key_images(written.txos, account_id_hex)
    IN WriteSpent(written, SpentTxos(key_images, unspent_key_images))

\* The body of the exclusive transaction for an account that exists, on the
\* store st = [accounts, txos, transaction_logs]: the store it commits and
\* the number of received Txos it returns.
sync_account_next_chunk(st, account_id_hex, subaddresses) ==
    LET account == st.accounts[account_id_hex]
        start == account.next_block_index
        blocks == BlocksRead(start)
    IN IF blocks = {}
       THEN [store |-> st, num_received_txos |-> 0]
       ELSE
        LET end_block_index == SetMax(blocks)
            received == ReceivedTxos(ChunkTxOuts(blocks), account_id_hex,
                                     account.view_only, subaddresses)
            spent == ReceiveThenSpend(st, received, ChunkKeyImages(blocks),
                                      account_id_hex)
            swept == [spent EXCEPT !.transaction_logs =
                        TransactionLog_update_pending_exceeding_tombstone_block_index_to_failed(
                            spent.transaction_logs,
                            TombstoneSweepIndex(end_block_index))]
        IN [store |-> [swept EXCEPT !.accounts =
                          Account_update_next_block_index(
                              swept.accounts, account_id_hex,
                              ChunkNextBlockIndex(start, end_block_index))],
            num_received_txos |-> Cardinality(received)]

\* The stores an aborting step may have written by the time it fails: nothing
\* (Account::get, get_block_contents or the decoding of the account key
\* failed, all before the first write), the received Txos (a later store call
\* failed), or the received and the spent Txos (the sweep or the cursor
\* update failed).
AbortedWrites(st, account_id_hex, subaddresses) ==
    IF account_id_hex \notin DOMAIN st.accounts
    THEN {st}
    ELSE LET account == st.accounts[account_id_hex]
             blocks == BlocksRead(account.next_block_index)
             received == ReceivedTxos(ChunkTxOuts(blocks), account_id_hex,
                                      account.view_only, subaddresses)
         IN {st,
             [st EXCEPT !.txos = WriteReceived(st.txos, received, account_id_hex)],
             ReceiveThenSpend(st, received, ChunkKeyImages(blocks), account_id_hex)}

\* exclusive_transaction(conn, f) when f returns Err: the transaction rolls
\* back, and the store is the one before it.
exclusive_transaction_Err(before, written) == before

\* -------------------------------------------------------------- initial state

Store == [accounts |-> accounts, txos |-> txos, transaction_logs |-> transaction_logs]

Init ==
    /\ ledger = << >>
    /\ accounts = << >>
    /\ assigned_subaddresses = {}
    /\ txos = << >>
    /\ transaction_logs = << >>
    /\ accounts_with_deposits = << >>
    /\ sync_pc = "loop"
    /\ sync_num_blocks = 0
    /\ sync_accounts = << >>
    /\ chunk_return = <<"none">>
    /\ sync_stop_requested = FALSE
    /\ webhook_pc = "loop"
    /\ accounts_to_send = {}
    /\ removed = {}
    /\ webhook_stop_requested = FALSE
    /\ last_post = {}
    /\ post_response = "none"
    /\ restart = FALSE
    /\ unposted = [a \in AccountIds |-> 0]
    /\ db_accounts = << >>
    /\ db_assigned_subaddresses = {}
    /\ db_txos = << >>
    /\ db_account_txo_statuses = << >>
    /\ db_result = [op |-> "new", result |-> "Ok"]
    /\ db_calls = 0
    /\ gift_code_result = [op |-> "new",
                           gift_code |-> [root_entropy |-> "nobody", txo_public_key |-> 0],
                           result |-> <<"none">>]

\* ------------------------------------------------- sync.rs: the scan worker

\* Account::list_all: the rows, in an order the query does not fix.
Orderings(S) ==
    {f \in [1..Cardinality(S) -> S] : \A i, j \in DOMAIN f : f[i] = f[j] => i = j}

\* The end of sync_all_accounts (Ok or Err), the sleep, and back to the top
\* of SyncThread's loop.
SyncReturn ==
    /\ sync_pc' = "loop"
    /\ sync_num_blocks' = 0
    /\ sync_accounts' = << >>
    /\ UNCHANGED chunk_return

\* The for loop moves on to the next account, or sync_all_accounts returns Ok.
SyncContinue ==
    IF Len(sync_accounts) > 1
    THEN /\ sync_accounts' = Tail(sync_accounts)
         /\ UNCHANGED <<sync_pc, sync_num_blocks, chunk_return>>
    ELSE SyncReturn

\* A tick that goes on to the accounts whatever num_blocks is.
TickReturnsEarly_Never(n_blocks) == FALSE

\* if num_blocks == 0 { return Ok(()); }
TickReturnsEarly(n_blocks) == n_blocks = 0

\* SyncThread::start, the loop: leave it when stop was requested, else enter
\* sync_all_accounts: read num_blocks (return at once when it is 0) and list
\* the accounts.
SyncLoop ==
    /\ sync_pc = "loop"
    /\ IF sync_stop_requested
       THEN /\ sync_pc' = "stopped"
            /\ UNCHANGED <<sync_num_blocks, sync_accounts>>
       ELSE IF TickReturnsEarly(num_blocks) \/ DOMAIN accounts = {}
       THEN UNCHANGED <<sync_pc, sync_num_blocks, sync_accounts>>
       ELSE \E order \in Orderings(DOMAIN accounts) :
                /\ sync_pc' = "for"
                /\ sync_num_blocks' = num_blocks
                /\ sync_accounts' =
                      [i \in DOMAIN order |->
                          [id |-> order[i],
                           next_block_index |-> accounts[order[i]].next_block_index,
                           resyncing |-> accounts[order[i]].resyncing]]
    /\ UNCHANGED <<ledger, store_vars, accounts_with_deposits, chunk_return,
                   webhook_vars, stop_vars, unposted, db_vars, gift_vars>>

\* An account one block behind the tip taken for caught up.
IsFullySynced_OneBehind(account, n_blocks) == account.next_block_index >= n_blocks - 1

\* if account.next_block_index as u64 > num_blocks - 1
IsFullySynced(account, n_blocks) == account.next_block_index > n_blocks - 1

\* An entry set to true for any account that has caught up, present or not.
MarkFullySynced_OrInsert(deposits, account_id_hex) ==
    [k \in DOMAIN deposits \cup {account_id_hex} |->
        IF k = account_id_hex THEN TRUE ELSE deposits[k]]

\* An entry set to true when present, and created with false when absent.
MarkFullySynced_OrInsertFalse(deposits, account_id_hex) ==
    [k \in DOMAIN deposits \cup {account_id_hex} |->
        IF k \in DOMAIN deposits
        THEN (IF k = account_id_hex THEN TRUE ELSE deposits[k])
        ELSE FALSE]

\* A caught-up branch that leaves the Deposit Set alone.
MarkFullySynced_Skip(deposits, account_id_hex) == deposits

\* accounts_with_deposits.entry(account_id).and_modify(|v| *v = true)
MarkFullySynced(deposits, account_id_hex) ==
    IF account_id_hex \in DOMAIN deposits
    THEN [deposits EXCEPT ![account_id_hex] = TRUE]
    ELSE deposits

\* The for loop's body for an account with no new blocks: an existing Deposit
\* Set entry becomes true, and a resyncing account stops resyncing.
SyncFullySynced ==
    /\ sync_pc = "for"
    /\ LET account == Head(sync_accounts) IN
        /\ IsFullySynced(account, sync_num_blocks)
        /\ accounts_with_deposits' = MarkFullySynced(accounts_with_deposits, account.id)
        /\ accounts' = IF account.resyncing
                       THEN Account_update_resyncing(accounts, account.id, FALSE)
                       ELSE accounts
    /\ SyncContinue
    /\ UNCHANGED <<ledger, assigned_subaddresses, txos, transaction_logs,
                   webhook_vars, stop_vars, unposted, db_vars, gift_vars>>

\* An insert made whatever the chunk step returned.
DepositsAfterChunk_Always(deposits, account_id_hex, result) ==
    [k \in DOMAIN deposits \cup {account_id_hex} |->
        IF k = account_id_hex THEN FALSE ELSE deposits[k]]

\* let found_txos = sync_account_next_chunk(..)?;
\* if found_txos > 0 { accounts_with_deposits.insert(account.id, false) }
DepositsAfterChunk(deposits, account_id_hex, result) ==
    IF result[1] = "Ok" /\ result[2] > 0
    THEN [k \in DOMAIN deposits \cup {account_id_hex} |->
            IF k = account_id_hex THEN FALSE ELSE deposits[k]]
    ELSE deposits

\* The for loop's body for an account that is behind: the chunk step commits,
\* and a step that received Txos inserts account -> false.
SyncChunk ==
    /\ sync_pc = "for"
    /\ LET account == Head(sync_accounts) IN
        /\ ~IsFullySynced(account, sync_num_blocks)
        /\ account.id \in DOMAIN accounts
        /\ \E done \in {sync_account_next_chunk(Store, account.id, assigned_subaddresses)} :
           LET found == done.num_received_txos
           IN /\ accounts' = done.store.accounts
              /\ txos' = done.store.txos
              /\ transaction_logs' = done.store.transaction_logs
              /\ accounts_with_deposits' =
                    DepositsAfterChunk(accounts_with_deposits, account.id,
                                       <<"Ok", found>>)
              /\ unposted' = IF found > 0
                              THEN [unposted EXCEPT ![account.id] = @ + 1]
                              ELSE unposted
    /\ SyncContinue
    /\ UNCHANGED <<ledger, assigned_subaddresses, webhook_vars, stop_vars, db_vars, gift_vars>>

\* The chunk step fails: Account::get finds no row, get_block_contents fails
\* with an error other than NotFound, or a store call fails.  The exclusive
\* transaction rolls back, sync_account_next_chunk(..)? returns the error from
\* sync_all_accounts, and SyncThread logs it.
SyncChunkError ==
    /\ sync_pc = "for"
    /\ LET account == Head(sync_accounts) IN
        /\ ~IsFullySynced(account, sync_num_blocks)
        /\ \E written \in AbortedWrites(Store, account.id, assigned_subaddresses) :
           \E st \in {exclusive_transaction_Err(Store, written)} :
              /\ accounts' = st.accounts
              /\ txos' = st.txos
              /\ transaction_logs' = st.transaction_logs
        /\ accounts_with_deposits' =
              DepositsAfterChunk(accounts_with_deposits, account.id, <<"Err">>)
    /\ SyncReturn
    /\ UNCHANGED <<ledger, assigned_subaddresses, webhook_vars, stop_vars, unposted,
                   db_vars, gift_vars>>

\* ledger_db.num_blocks().expect(..) or Account::list_all(..).expect(..) at
\* the start of a tick gets an error: the scan thread panics and ends.
SyncPanic ==
    /\ sync_pc = "loop"
    /\ ~sync_stop_requested
    /\ sync_pc' = "panicked"
    /\ UNCHANGED <<ledger, store_vars, accounts_with_deposits, sync_num_blocks,
                   sync_accounts, chunk_return, webhook_vars, stop_vars, unposted,
                   db_vars, gift_vars>>

\* sync_account_next_chunk called for an account outside a tick, as the
\* callers that sync an account by hand do: the exclusive transaction commits
\* and the call returns Ok(num_received_txos), or Account::get finds no row
\* and the call returns the error.
CallChunk(account_id_hex) ==
    /\ IF account_id_hex \in DOMAIN accounts
       THEN \E done \in {sync_account_next_chunk(Store, account_id_hex,
                                                 assigned_subaddresses)} :
               /\ accounts' = done.store.accounts
               /\ txos' = done.store.txos
               /\ transaction_logs' = done.store.transaction_logs
               /\ chunk_return' = <<"Ok", done.num_received_txos>>
       ELSE /\ chunk_return' = <<"Err">>
            /\ UNCHANGED <<accounts, txos, transaction_logs>>
    /\ UNCHANGED <<ledger, assigned_subaddresses, accounts_with_deposits, sync_pc,
                   sync_num_blocks, sync_accounts, webhook_vars, stop_vars,
                   unposted, db_vars, gift_vars>>

\* The same call when a ledger read, the decoding of the account key or a
\* store call fails: the transaction rolls back and the call returns the
\* error.
CallChunkAborts(account_id_hex) ==
    /\ account_id_hex \in DOMAIN accounts
    /\ \E written \in AbortedWrites(Store, account_id_hex, assigned_subaddresses) :
       \E st \in {exclusive_transaction_Err(Store, written)} :
          /\ accounts' = st.accounts
          /\ txos' = st.txos
          /\ transaction_logs' = st.transaction_logs
    /\ chunk_return' = <<"Err", "aborted">>
    /\ UNCHANGED <<ledger, assigned_subaddresses, accounts_with_deposits, sync_pc,
                   sync_num_blocks, sync_accounts, webhook_vars, stop_vars,
                   unposted, db_vars, gift_vars>>

\* ------------------------------------------- sync.rs: the webhook worker

\* A removal that leaves the key in the Deposit Set, with the value false.
RemoveKey_SetFalse(deposits, key) ==
    [k \in DOMAIN deposits \cup {key} |-> IF k = key THEN FALSE ELSE deposits[k]]

\* accounts_with_deposits.lock().unwrap().remove(&key)
RemoveKey(deposits, key) ==
    [k \in DOMAIN deposits \ {key} |-> deposits[k]]

\* A request made on every iteration.
ShouldPost_Always(to_send) == TRUE

\* if accounts_to_send.len() > 0
ShouldPost(to_send) == to_send # {}

\* What client.post(..).send() and response.error_for_status() come back
\* with: a 2xx response, another status, or an error of send().
Responses == {"ok", "status_err", "send_err"}

\* A dispatcher that puts the accounts of a failed POST back.
PostOutcome_Reinsert(deposits, sent, response) ==
    IF response = "ok" THEN deposits
    ELSE [k \in DOMAIN deposits \cup sent |-> IF k \in sent THEN TRUE ELSE deposits[k]]

\* match client.post(..).send(): Ok(_) => (), Err(e) => log::error!(..): the
\* Deposit Set after the response has been handled.
PostOutcome(deposits, sent, response) == deposits

\* A worker that empties the Deposit Set when it is told to stop.
DepositsOnWebhookStop_Drain(deposits) == << >>

\* if thread_stop_requested.load(..) { break; }: the Deposit Set when the
\* worker leaves its loop.
DepositsOnWebhookStop(deposits) == deposits

\* WebhookThread::start, the loop: leave it when stop was requested, else
\* collect the keys whose value is true (under one lock of the Deposit Set).
\* With nothing to send the iteration removes nothing, reads restart, makes
\* no request and sleeps.
WebhookLoop ==
    /\ webhook_pc = "loop"
    /\ IF webhook_stop_requested
       THEN /\ webhook_pc' = "stopped"
            /\ accounts_with_deposits' = DepositsOnWebhookStop(accounts_with_deposits)
            /\ UNCHANGED <<accounts_to_send, removed, last_post, post_response>>
       ELSE LET to_send == {k \in DOMAIN accounts_with_deposits :
                                accounts_with_deposits[k] = TRUE}
            IN /\ accounts_to_send' = to_send
               /\ removed' = {}
               /\ last_post' = {}
               /\ post_response' = "none"
               /\ webhook_pc' = IF ShouldPost(to_send) THEN "remove" ELSE "loop"
               /\ UNCHANGED accounts_with_deposits
    /\ UNCHANGED <<ledger, store_vars, sync_vars, stop_vars, unposted, db_vars, gift_vars>>

\* for key in accounts_to_send.iter(): lock the Deposit Set and remove the key.
WebhookRemove ==
    /\ webhook_pc = "remove"
    /\ \E key \in accounts_to_send \ removed :
        /\ accounts_with_deposits' = RemoveKey(accounts_with_deposits, key)
        /\ removed' = removed \cup {key}
    /\ UNCHANGED <<ledger, store_vars, sync_vars, webhook_pc, accounts_to_send,
                   last_post, post_response, stop_vars, unposted, db_vars, gift_vars>>

\* let restart_to_send = restart.lock().unwrap().load(..) (a read), then
\* POST {"accounts": accounts_to_send, "restart": restart_to_send}; whatever
\* the response, sleep and go back to the top of the loop.
WebhookPost ==
    /\ webhook_pc = "remove"
    /\ removed = accounts_to_send
    /\ \E response \in Responses :
        /\ post_response' = response
        /\ accounts_with_deposits' =
              PostOutcome(accounts_with_deposits, accounts_to_send, response)
    /\ last_post' = accounts_to_send
    /\ unposted' = [a \in AccountIds |->
                        IF a \in accounts_to_send THEN unposted[a] - 1 ELSE unposted[a]]
    /\ accounts_to_send' = {}
    /\ removed' = {}
    /\ webhook_pc' = "loop"
    /\ UNCHANGED <<ledger, store_vars, sync_vars, stop_vars, db_vars, gift_vars>>

\* SyncThread::stop and WebhookThread::stop: stop_requested.store(true)
StopSync ==
    /\ ~sync_stop_requested
    /\ sync_stop_requested' = TRUE
    /\ UNCHANGED <<ledger, store_vars, accounts_with_deposits, sync_vars,
                   webhook_vars, webhook_stop_requested, restart, unposted, db_vars, gift_vars>>

StopWebhook ==
    /\ ~webhook_stop_requested
    /\ webhook_stop_requested' = TRUE
    /\ UNCHANGED <<ledger, store_vars, accounts_with_deposits, sync_vars,
                   webhook_vars, sync_stop_requested, restart, unposted, db_vars, gift_vars>>

\* ------------------------------------------------------ the ledger grows

\* A new block: an output not yet on chain (public keys are unique on chain)
\* or a key image not yet on chain that spends an output of an earlier block.
AppendBlockUpTo(max_blocks, outputs, key_images) ==
    /\ Len(ledger) < max_blocks
    /\ Cardinality(outputs) + Cardinality(key_images) <= 1
    /\ outputs \subseteq TxOuts \ LedgerOutputs
    /\ key_images \subseteq {SpendKeyImage(o) : o \in LedgerOutputs} \ LedgerKeyImages
    /\ ledger' = Append(ledger, [outputs |-> outputs, key_images |-> key_images])
    /\ UNCHANGED <<store_vars, accounts_with_deposits, sync_vars, webhook_vars,
                   stop_vars, unposted, db_vars, gift_vars>>

AppendBlock(outputs, key_images) == AppendBlockUpTo(MaxBlocks, outputs, key_images)

\* A new block that carries an output together with the key image that
\* spends it.
AppendSpendingBlock(output) ==
    /\ Len(ledger) < MaxBlocks
    /\ output \in TxOuts \ LedgerOutputs
    /\ ledger' = Append(ledger, [outputs |-> {output},
                                 key_images |-> {SpendKeyImage(output)}])
    /\ UNCHANGED <<store_vars, accounts_with_deposits, sync_vars, webhook_vars,
                   stop_vars, unposted, db_vars, gift_vars>>

\* A new block of up to two outputs not yet on chain, well-formed or not.
AppendOutputsBlock(outputs) ==
    /\ Len(ledger) < MaxBlocks
    /\ Cardinality(outputs) <= 2
    /\ outputs \subseteq (TxOuts \cup MalformedTxOuts) \ LedgerOutputs
    /\ ledger' = Append(ledger, [outputs |-> outputs, key_images |-> {}])
    /\ UNCHANGED <<store_vars, accounts_with_deposits, sync_vars, webhook_vars,
                   stop_vars, unposted, db_vars, gift_vars>>

\* ------------------------------------------- wallet_impl.rs: the accounts

\* Account::create(key, main, change, next subaddress, first_block,
\* next_block, import_block, name): the account row and the main and change
\* subaddresses.  An id that was created before has its subaddress rows.
Account_create(account_id_hex, first_block, next_block) ==
    /\ account_id_hex \notin DOMAIN accounts
    /\ SubaddressSpendKey(account_id_hex, DEFAULT_SUBADDRESS_INDEX)
          \notin assigned_subaddresses
    /\ accounts' =
          [k \in DOMAIN accounts \cup {account_id_hex} |->
              IF k = account_id_hex
              THEN [first_block_index |-> first_block,
                    next_block_index |-> next_block,
                    resyncing |-> FALSE,
                    view_only |-> FALSE]
              ELSE accounts[k]]
    /\ assigned_subaddresses' = assigned_subaddresses \cup
          {SubaddressSpendKey(account_id_hex, DEFAULT_SUBADDRESS_INDEX),
           SubaddressSpendKey(account_id_hex, DEFAULT_CHANGE_SUBADDRESS_INDEX)}

\* WalletService::create_account(name, first_block)
create_account(account_id_hex, first_block) ==
    /\ LET fb == IF IsSome(first_block) THEN Unwrap(first_block) ELSE DEFAULT_FIRST_BLOCK
       IN Account_create(account_id_hex, fb, fb)
    /\ UNCHANGED <<ledger, txos, transaction_logs, accounts_with_deposits,
                   sync_vars, webhook_vars, stop_vars, unposted, db_vars, gift_vars>>

\* WalletService::import_account(entropy, name, first_block)
import_account(account_id_hex, first_block) ==
    /\ LET fb == IF IsSome(first_block) THEN Unwrap(first_block) ELSE DEFAULT_FIRST_BLOCK
       IN Account_create(account_id_hex, fb, fb + 1)
    /\ UNCHANGED <<ledger, txos, transaction_logs, accounts_with_deposits,
                   sync_vars, webhook_vars, stop_vars, unposted, db_vars, gift_vars>>

\* The import of an account of which the wallet holds the view private key
\* only: the row has view_only set, and the main and change subaddresses are
\* assigned.
import_view_only_account(account_id_hex) ==
    /\ account_id_hex \notin DOMAIN accounts
    /\ SubaddressSpendKey(account_id_hex, DEFAULT_SUBADDRESS_INDEX)
          \notin assigned_subaddresses
    /\ accounts' =
          [k \in DOMAIN accounts \cup {account_id_hex} |->
              IF k = account_id_hex
              THEN [first_block_index |-> DEFAULT_FIRST_BLOCK,
                    next_block_index |-> DEFAULT_FIRST_BLOCK,
                    resyncing |-> FALSE,
                    view_only |-> TRUE]
              ELSE accounts[k]]
    /\ assigned_subaddresses' = assigned_subaddresses \cup
          {SubaddressSpendKey(account_id_hex, DEFAULT_SUBADDRESS_INDEX),
           SubaddressSpendKey(account_id_hex, DEFAULT_CHANGE_SUBADDRESS_INDEX)}
    /\ UNCHANGED <<ledger, txos, transaction_logs, accounts_with_deposits,
                   sync_vars, webhook_vars, stop_vars, unposted, db_vars, gift_vars>>

\* WalletService::delete_account: Account::get(..)?.delete(conn)
delete_account(account_id_hex) ==
    /\ account_id_hex \in DOMAIN accounts
    /\ accounts' = [k \in DOMAIN accounts \ {account_id_hex} |-> accounts[k]]
    /\ UNCHANGED <<ledger, assigned_subaddresses, txos, transaction_logs,
                   accounts_with_deposits, sync_vars, webhook_vars, stop_vars,
                   unposted, db_vars, gift_vars>>

\* AssignedSubaddress::create_next_for_account: the index after the last one
\* the account has assigned (Account::create starts with the main and the
\* change subaddress).
NextSubaddressIndex(account_id_hex) ==
    SetMax({k[2] : k \in {j \in assigned_subaddresses : j[1] = account_id_hex}}) + 1

\* WalletService::create_assigned_subaddress(account_id_hex, comment)
create_assigned_subaddress(account_id_hex) ==
    /\ account_id_hex \in DOMAIN accounts
    /\ NextSubaddressIndex(account_id_hex) <= MaxSubaddress
    /\ assigned_subaddresses' = assigned_subaddresses \cup
          {SubaddressSpendKey(account_id_hex, NextSubaddressIndex(account_id_hex))}
    /\ UNCHANGED <<ledger, accounts, txos, transaction_logs, accounts_with_deposits,
                   sync_vars, webhook_vars, stop_vars, unposted, db_vars, gift_vars>>

\* The rewind an administrator requests for an account: the account is
\* marked resyncing and its cursor is set back to its first block.  It may
\* be requested at any time, also while an earlier rewind is in progress.
resync_account(account_id_hex) ==
    /\ account_id_hex \in DOMAIN accounts
    /\ unposted[account_id_hex] < MaxUnposted
    /\ accounts' = Account_update_next_block_index(
                        Account_update_resyncing(accounts, account_id_hex, TRUE),
                        account_id_hex, accounts[account_id_hex].first_block_index)
    /\ UNCHANGED <<ledger, assigned_subaddresses, txos, transaction_logs,
                   accounts_with_deposits, sync_vars, webhook_vars, stop_vars,
                   unposted, db_vars, gift_vars>>

\* TransactionLog::log_submitted: the log is pending, its inputs are pending
\* through it, and the outputs the transaction mints are recorded (secreted).
TransactionLog_log_submitted(account_id_hex, input_txos, outputs, block_count, tombstone) ==
    /\ transaction_logs' = Append(transaction_logs,
          [account_id |-> account_id_hex,
           input_txos |-> input_txos,
           output_txos |-> {TxoID(o) : o \in outputs},
           submitted_block_index |-> block_count,
           tombstone_block_index |-> tombstone,
           status |-> "pending",
           finalized_block_index |-> None])
    /\ txos' = [i \in DOMAIN txos \cup {TxoID(o) : o \in outputs} |->
                  IF i \in DOMAIN txos THEN txos[i]
                  ELSE [NoneTxo EXCEPT
                          !.account_id = Some(account_id_hex),
                          !.value = (CHOOSE o \in outputs : TxoID(o) = i).value]]

\* WalletService::submit_transaction of a proposal that build_transaction
\* made for the account: it spends unspent Txos of the account that have a
\* key image and mints outputs that are not on chain yet.
submit_transaction(account_id_hex, input_txos, outputs, tombstone) ==
    /\ Len(transaction_logs) < MaxLogs
    /\ account_id_hex \in DOMAIN accounts
    /\ input_txos # {}
    /\ \A i \in input_txos :
          /\ i \in DOMAIN txos
          /\ txos[i].account_id = Some(account_id_hex)
          /\ IsSome(txos[i].key_image)
          /\ TxoIsUnspent(txos, transaction_logs, i)
    /\ outputs \subseteq TxOuts \ LedgerOutputs
    /\ \A o \in outputs : TxoID(o) \notin DOMAIN txos
    /\ tombstone > num_blocks
    /\ TransactionLog_log_submitted(account_id_hex, input_txos, outputs,
                                    num_blocks, tombstone)
    /\ UNCHANGED <<ledger, accounts, assigned_subaddresses, accounts_with_deposits,
                   sync_vars, webhook_vars, stop_vars, unposted, db_vars, gift_vars>>

\* --------------------------------------------- gift_code.rs: gift codes

\* The outputs gift codes name: one to the main subaddress of account a, one
\* to a subaddress a has not assigned.
\* decode_gift_code: the DecodedGiftCode of every string a caller may pass,
\* the root entropy of a gift account and the public key of an output.  The
\* gift account is named by its entropy.
GiftTxOuts == {o \in TxOuts : o.pk \in {1, 4}}
GiftCodes == [root_entropy : AccountIds, txo_public_key : {o.pk : o \in GiftTxOuts}]

\* ledger_db.get_tx_out_index_by_public_key followed by get_tx_out_by_index:
\* None stands for Error::NotFound.
get_tx_out_by_public_key(public_key) == {o \in LedgerOutputs : o.pk = public_key}

\* gift_txo.amount.get_value(&shared_secret): Ok(value) when the shared
\* secret is the one the amount was masked with.
get_value(tx_out, view_private_key) ==
    IF tx_out.owner = view_private_key THEN Some(tx_out.value) ELSE None

\* The key image check_gift_code_status looks up: that of the gift code's
\* public key under the main subaddress of the gift account.
gift_code_key_image(gift_code) ==
    KeyImageOf(gift_code.txo_public_key, ViewPrivateKey(gift_code.root_entropy),
               SubaddressSpendKey(gift_code.root_entropy, DEFAULT_SUBADDRESS_INDEX))

\* check_gift_code_status: <<"Ok", status, value>>, or <<"panic">> where the
\* unwrap of get_value fails.
check_gift_code_status(gift_code) ==
    LET gift_txo == get_tx_out_by_public_key(gift_code.txo_public_key)
    IN IF gift_txo = None THEN <<"Ok", "GiftCodeSubmittedPending", None>>
       ELSE LET value == get_value(Unwrap(gift_txo),
                                   ViewPrivateKey(gift_code.root_entropy))
            IN IF value = None THEN <<"panic">>
               ELSE IF gift_code_key_image(gift_code) \in LedgerKeyImages
               THEN <<"Ok", "GiftCodeClaimed", value>>
               ELSE <<"Ok", "GiftCodeAvailable", value>>

\* A direct call of check_gift_code_status.
CallCheckGiftCodeStatus(gift_code) ==
    /\ gift_code_result' = [op |-> "check_gift_code_status", gift_code |-> gift_code,
                            result |-> check_gift_code_status(gift_code)]
    /\ UNCHANGED <<engine_vars, db_vars>>

\* claim_gift_code up to its match on the status: the error it returns
\* there, or <<"pass">> for an available gift code.
claim_gift_code_match(checked) ==
    IF checked[1] = "panic" THEN <<"panic">>
    ELSE IF checked[2] = "GiftCodeClaimed" THEN <<"Err", "GiftCodeClaimed">>
    ELSE IF checked[2] = "GiftCodeSubmittedPending"
    THEN <<"Err", "GiftCodeNotYetAvailable">>
    ELSE <<"pass">>

\* claim_gift_code, the gift code not available: the error is returned
\* before anything is written.
ClaimGiftCodeRejected(gift_code) ==
    /\ claim_gift_code_match(check_gift_code_status(gift_code)) # <<"pass">>
    /\ gift_code_result' = [op |-> "claim_gift_code", gift_code |-> gift_code,
                            result |-> claim_gift_code_match(
                                           check_gift_code_status(gift_code))]
    /\ UNCHANGED <<engine_vars, db_vars>>

\* The subaddresses after claim_gift_code has its destination address: the
\* one passed in, or the next one of the claiming account.
DestinationAssigned(account_id, assigned_subaddress_b58) ==
    IF IsSome(assigned_subaddress_b58) THEN assigned_subaddresses
    ELSE assigned_subaddresses \cup
             {SubaddressSpendKey(account_id, NextSubaddressIndex(account_id))}

\* claim_gift_code, the gift code available and no address passed in for an
\* account the wallet does not hold: the unwrap of
\* assign_address_for_account fails.
ClaimGiftCodeNoAccount(gift_code, account_id) ==
    /\ claim_gift_code_match(check_gift_code_status(gift_code)) = <<"pass">>
    /\ account_id \notin DOMAIN accounts
    /\ gift_code_result' = [op |-> "claim_gift_code", gift_code |-> gift_code,
                            result |-> <<"panic">>]
    /\ UNCHANGED <<engine_vars, db_vars>>

\* build_and_submit from the gift account, spending the gift Txo: it fails
\* when the wallet cannot spend that Txo, and may fail for other reasons.
GiftTxoSpendable(gift_code, gift_txo) ==
    /\ gift_code.root_entropy \in DOMAIN accounts
    /\ TxoID(gift_txo) \in DOMAIN txos
    /\ txos[TxoID(gift_txo)].account_id = Some(gift_code.root_entropy)
    /\ IsSome(txos[TxoID(gift_txo)].key_image)
    /\ TxoIsUnspent(txos, transaction_logs, TxoID(gift_txo))

\* claim_gift_code, the gift code available: the destination address, the
\* fee test, and build_and_submit.
ClaimGiftCodeAvailable(gift_code, account_id, assigned_subaddress_b58) ==
    /\ claim_gift_code_match(check_gift_code_status(gift_code)) = <<"pass">>
    /\ IsSome(assigned_subaddress_b58) \/ account_id \in DOMAIN accounts
    /\ assigned_subaddress_b58 = None =>
          NextSubaddressIndex(account_id) <= MaxSubaddress
    /\ assigned_subaddresses' = DestinationAssigned(account_id, assigned_subaddress_b58)
    /\ \E gift_txo \in get_tx_out_by_public_key(gift_code.txo_public_key) :
          IF gift_txo.value < MINIMUM_FEE
          THEN /\ gift_code_result' = [op |-> "claim_gift_code", gift_code |-> gift_code,
                                       result |-> <<"Err", "InsufficientValueForFee">>]
               /\ UNCHANGED <<txos, transaction_logs>>
          ELSE \/ /\ gift_code_result' =
                        [op |-> "claim_gift_code", gift_code |-> gift_code,
                         result |-> <<"Err", "TransactionService">>]
                  /\ UNCHANGED <<txos, transaction_logs>>
               \/ /\ GiftTxoSpendable(gift_code, gift_txo)
                  /\ Len(transaction_logs) < MaxLogs
                  /\ \E tombstone \in (num_blocks + 1)..(MaxBlocks + 1) :
                        TransactionLog_log_submitted(gift_code.root_entropy,
                            {TxoID(gift_txo)}, {}, num_blocks, tombstone)
                  /\ gift_code_result' =
                        [op |-> "claim_gift_code", gift_code |-> gift_code,
                         result |-> <<"Ok">>]
    /\ UNCHANGED <<ledger, accounts, accounts_with_deposits, sync_vars, webhook_vars,
                   stop_vars, unposted, db_vars>>

\* claim_gift_code(gift_code_b58, account_id, assigned_subaddress_b58)
claim_gift_code(gift_code, account_id, assigned_subaddress_b58) ==
    \/ ClaimGiftCodeRejected(gift_code)
    \/ assigned_subaddress_b58 = None /\ ClaimGiftCodeNoAccount(gift_code, account_id)
    \/ ClaimGiftCodeAvailable(gift_code, account_id, assigned_subaddress_b58)

\* ------------------------------------------------------ db.rs: WalletDb
\* The tables' primary keys are the columns the code looks rows up by with
\* find(): accounts by account_id_hex, txos by txo_id_hex, account_txo_statuses
\* by (account_id_hex, txo_id_hex); an insert of a key that exists fails.  No
\* method runs in a transaction: what it wrote before a failing statement stays.

Insert(table, key, row) ==
    [k \in DOMAIN table \cup {key} |-> IF k = key THEN row ELSE table[k]]

\* WalletDb::create_account
WalletDb_create_account(account_id_hex, main_subaddress_index, change_subaddress_index, first_block, next_block) ==
    /\ IF account_id_hex \in DOMAIN db_accounts
       THEN /\ UNCHANGED <<db_accounts, db_assigned_subaddresses>>
            /\ db_result' = [op |-> "create_account", result |-> "Err"]
       ELSE /\ db_accounts' = Insert(db_accounts, account_id_hex,
                                     [first_block |-> first_block, next_block |-> next_block])
            /\ IF <<account_id_hex, main_subaddress_index>> \in db_assigned_subaddresses
               THEN /\ UNCHANGED db_assigned_subaddresses
                    /\ db_result' = [op |-> "create_account", result |-> "Err"]
               ELSE /\ db_assigned_subaddresses' = db_assigned_subaddresses \cup
                          {<<account_id_hex, main_subaddress_index>>,
                           <<account_id_hex, change_subaddress_index>>}
                    /\ db_result' = [op |-> "create_account", result |-> "Ok"]
    /\ UNCHANGED <<db_txos, db_account_txo_statuses, engine_vars, gift_vars>>

\* WalletDb::delete_account
WalletDb_delete_account(account_id_hex) ==
    /\ db_accounts' = [k \in DOMAIN db_accounts \ {account_id_hex} |-> db_accounts[k]]
    /\ db_result' = [op |-> "delete_account", result |-> "Ok"]
    /\ UNCHANGED <<db_assigned_subaddresses, db_txos, db_account_txo_statuses, engine_vars, gift_vars>>

\* WalletDb::create_received_txo
WalletDb_create_received_txo(txo, subaddress_index, key_image, value, received_block_height, account_id_hex) ==
    /\ LET txo_id == TxoID(txo) IN
       IF txo_id \in DOMAIN db_txos
       THEN /\ UNCHANGED <<db_txos, db_account_txo_statuses>>
            /\ db_result' = [op |-> "create_received_txo", result |-> "Err"]
       ELSE /\ db_txos' = Insert(db_txos, txo_id,
                                 [value |-> value,
                                  subaddress_index |-> subaddress_index,
                                  key_image |-> Some(key_image),
                                  received_block_height |-> Some(received_block_height),
                                  spent_tombstone_block_height |-> None,
                                  spent_block_height |-> None])
            /\ IF <<account_id_hex, txo_id>> \in DOMAIN db_account_txo_statuses
               THEN /\ UNCHANGED db_account_txo_statuses
                    /\ db_result' = [op |-> "create_received_txo", result |-> "Err"]
               ELSE /\ db_account_txo_statuses' =
                          Insert(db_account_txo_statuses, <<account_id_hex, txo_id>>,
                                 [txo_status |-> "unspent", txo_type |-> "received"])
                    /\ db_result' = [op |-> "create_received_txo", result |-> "Ok"]
    /\ UNCHANGED <<db_accounts, db_assigned_subaddresses, engine_vars, gift_vars>>

\* for key_image in key_images (update_spent_and_increment_next_block): the
\* tables after the loop, and whether it returned DuplicateEntries.
RECURSIVE MarkSpent(_, _, _, _, _)
MarkSpent(table, statuses, account_id_hex, spent_block_height, key_images) ==
    IF key_images = << >>
    THEN [txos |-> table, statuses |-> statuses, result |-> "Ok"]
    ELSE LET matches == {id \in DOMAIN table : table[id].key_image = Some(Head(key_images))}
         IN IF matches = {}
            THEN MarkSpent(table, statuses, account_id_hex, spent_block_height,
                           Tail(key_images))
            ELSE IF Cardinality(matches) > 1
            THEN [txos |-> table, statuses |-> statuses, result |-> "Err"]
            ELSE LET txo_id == CHOOSE id \in matches : TRUE
                 IN MarkSpent(
                        [table EXCEPT ![txo_id].spent_block_height = Some(spent_block_height)],
                        IF <<account_id_hex, txo_id>> \in DOMAIN statuses
                        THEN [statuses EXCEPT ![<<account_id_hex, txo_id>>].txo_status = "spent"]
                        ELSE statuses,
                        account_id_hex, spent_block_height, Tail(key_images))

\* WalletDb::update_spent_and_increment_next_block
WalletDb_update_spent_and_increment_next_block(account_id_hex, spent_block_height, key_images) ==
    /\ \E done \in {MarkSpent(db_txos, db_account_txo_statuses, account_id_hex,
                              spent_block_height, key_images)} :
        /\ db_txos' = done.txos
        /\ db_account_txo_statuses' = done.statuses
        /\ db_accounts' =
              IF done.result = "Ok" /\ account_id_hex \in DOMAIN db_accounts
              THEN [db_accounts EXCEPT ![account_id_hex].next_block = spent_block_height + 1]
              ELSE db_accounts
        /\ db_result' = [op |-> "update_spent_and_increment_next_block",
                         result |-> done.result]
    /\ UNCHANGED <<db_assigned_subaddresses, engine_vars, gift_vars>>

\* for utxo in tx_proposal.utxos (update_submitted_transaction): the status
\* rows after the loop, the account of the last input, and the result.
RECURSIVE MarkPending(_, _, _)
MarkPending(statuses, utxos, account_id) ==
    IF utxos = << >>
    THEN [statuses |-> statuses, account_id |-> account_id,
          result |-> IF account_id = None THEN "Err" ELSE "Ok"]
    ELSE LET txo_id == TxoID(Head(utxos))
             matches == {k \in DOMAIN statuses : k[2] = txo_id}
         IN IF Cardinality(matches) # 1
            THEN [statuses |-> statuses, account_id |-> account_id, result |-> "Err"]
            ELSE LET k == CHOOSE k \in matches : TRUE
                 IN MarkPending([statuses EXCEPT ![k].txo_status = "pending"],
                                Tail(utxos), Some(k[1]))

\* for output in tx_proposal.tx.prefix.outputs (update_submitted_transaction):
\* the minted rows.  The outputs are outlays, saved with their value.
RECURSIVE InsertMinted(_, _, _, _, _)
InsertMinted(table, statuses, account_id_hex, outputs, tombstone_block) ==
    IF outputs = << >>
    THEN [txos |-> table, statuses |-> statuses, result |-> "Ok"]
    ELSE LET txo_id == TxoID(Head(outputs))
         IN IF txo_id \in DOMAIN table
            THEN [txos |-> table, statuses |-> statuses, result |-> "Err"]
            ELSE LET inserted ==
                        Insert(table, txo_id,
                               [value |-> Head(outputs).value,
                                subaddress_index |-> 0,
                                key_image |-> None,
                                received_block_height |-> None,
                                spent_tombstone_block_height |-> Some(tombstone_block),
                                spent_block_height |-> None])
                 IN IF <<account_id_hex, txo_id>> \in DOMAIN statuses
                    THEN [txos |-> inserted, statuses |-> statuses, result |-> "Err"]
                    ELSE InsertMinted(
                            inserted,
                            Insert(statuses, <<account_id_hex, txo_id>>,
                                   [txo_status |-> "unknown", txo_type |-> "minted"]),
                            account_id_hex, Tail(outputs), tombstone_block)

\* WalletDb::update_submitted_transaction
WalletDb_update_submitted_transaction(utxos, outputs, tombstone_block) ==
    /\ \E pending \in {MarkPending(db_account_txo_statuses, utxos, None)} :
        IF pending.result = "Err"
        THEN /\ db_account_txo_statuses' = pending.statuses
             /\ UNCHANGED db_txos
             /\ db_result' = [op |-> "update_submitted_transaction", result |-> "Err"]
        ELSE \E minted \in {InsertMinted(db_txos, pending.statuses,
                                         Unwrap(pending.account_id), outputs,
                                         tombstone_block)} :
                /\ db_txos' = minted.txos
                /\ db_account_txo_statuses' = minted.statuses
                /\ db_result' = [op |-> "update_submitted_transaction",
                                 result |-> minted.result]
    /\ UNCHANGED <<db_accounts, db_assigned_subaddresses, engine_vars, gift_vars>>

\* ------------------------------------------------------- specifications

AtMostOne(S) == {T \in SUBSET S : Cardinality(T) <= 1}
FirstBlocks == {None} \cup {Some(n) : n \in 1..MaxFirstBlock}

Chain ==
    \E outputs \in AtMostOne(TxOuts), key_images \in AtMostOne(
        {SpendKeyImage(o) : o \in TxOuts}) : AppendBlock(outputs, key_images)

\* The wallet's requests on the accounts `ids`.
Wallet(ids) ==
    \/ \E id \in ids, fb \in FirstBlocks : create_account(id, fb)
    \/ \E id \in ids, fb \in FirstBlocks : import_account(id, fb)
    \/ \E id \in ids : delete_account(id)
    \/ \E id \in ids, ins \in SUBSET DOMAIN txos, outs \in AtMostOne(TxOuts),
          t \in 1..(MaxBlocks + 1) : submit_transaction(id, ins, outs, t)

ScanWorker == SyncLoop \/ SyncFullySynced \/ SyncChunk \/ SyncChunkError
WebhookWorker == WebhookLoop \/ WebhookRemove \/ WebhookPost

\* The scan worker, the growing ledger and every request on one account.
Next == ScanWorker \/ Chain \/ Wallet({"a"})

Spec == Init /\ [][Next]_vars

\* The same, with the chunk step also called directly.
NextChunk == Next \/ CallChunk("a")

SpecChunk == Init /\ [][NextChunk]_vars

\* Blocks that carry the deposit to a, the payment to b, the key image that
\* spends the deposit, or nothing of this wallet.
ChainOfTx ==
    \E outputs \in AtMostOne({o \in TxOuts : o.pk \in {1, 3}}),
       key_images \in AtMostOne({SpendKeyImage(o) : o \in {t \in TxOuts : t.pk = 1}}) :
        AppendBlockUpTo(MaxTxBlocks, outputs, key_images)

\* The scan worker over two accounts, of which a submits a transaction that
\* pays b.
NextTx ==
    \/ ScanWorker
    \/ ChainOfTx
    \/ \E id \in AccountIds : create_account(id, None)
    \/ \E ins \in SUBSET DOMAIN txos, outs \in AtMostOne({o \in TxOuts : o.pk = 3}),
          t \in 1..MaxTxBlocks : submit_transaction("a", ins, outs, t)

SpecTx == Init /\ [][NextTx]_vars

\* Blocks that carry outputs only.
ChainOfOutputs == \E outputs \in AtMostOne(TxOuts) : AppendBlock(outputs, {})

\* Both workers, a ledger that grows by outputs, and accounts that are
\* created with the default first block and deleted.
NextWebhook ==
    \/ ScanWorker
    \/ WebhookWorker
    \/ ChainOfOutputs
    \/ \E id \in AccountIds : create_account(id, None)
    \/ \E id \in AccountIds : delete_account(id)

SpecWebhook == Init /\ [][NextWebhook]_vars

\* Blocks that carry one deposit to a main subaddress.
ChainOfDeposits ==
    \E o \in {t \in TxOuts : t.sub = DEFAULT_SUBADDRESS_INDEX} : AppendBlock({o}, {})

\* Both workers and a ledger that grows by deposits until it stops, with
\* accounts that are created and stay.  The two threads run for ever: the
\* scan loop and the webhook loop each get their turn, and a chunk step that
\* fails does not fail for ever.
NextLive ==
    \/ ScanWorker
    \/ WebhookWorker
    \/ ChainOfDeposits
    \/ \E id \in AccountIds : create_account(id, None)

SpecLive ==
    /\ Init
    /\ [][NextLive]_vars
    /\ WF_vars(SyncLoop \/ SyncFullySynced)
    /\ SF_vars(SyncChunk)
    /\ WF_vars(WebhookWorker)

\* Both workers with a ledger or store whose reads at the start of a tick may
\* fail, the application stopping either worker, deposits, and one account.
NextStop ==
    \/ ScanWorker
    \/ SyncPanic
    \/ WebhookWorker
    \/ StopSync
    \/ StopWebhook
    \/ ChainOfDeposits
    \/ create_account("a", None)

SpecStop == Init /\ [][NextStop]_vars

\* The two threads keep running while they live.
SpecStopLive ==
    /\ Init
    /\ [][NextStop]_vars
    /\ WF_vars(ScanWorker)
    /\ WF_vars(WebhookWorker)

\* The scan worker when no ledger read and no store call fails.
ScanWorkerNoError == SyncLoop \/ SyncFullySynced \/ SyncChunk

\* The scan worker without errors over two accounts that are created and
\* stay, and a ledger that grows by deposits until it stops.  The scan thread
\* keeps running.
NextCatchUp ==
    \/ ScanWorkerNoError
    \/ ChainOfDeposits
    \/ \E id \in AccountIds : create_account(id, None)

SpecCatchUp ==
    /\ Init
    /\ [][NextCatchUp]_vars
    /\ WF_vars(ScanWorkerNoError)

\* The scan worker and direct calls of the chunk step that abort, over one
\* account that is created and submits transactions.
NextAbort ==
    \/ ScanWorker
    \/ Chain
    \/ create_account("a", None)
    \/ \E ins \in SUBSET DOMAIN txos, t \in 1..(MaxBlocks + 1) :
          submit_transaction("a", ins, {}, t)
    \/ CallChunkAborts("a")

SpecAbort == Init /\ [][NextAbort]_vars

\* The scan worker over one account that is created and submits
\* transactions, and a ledger whose blocks carry an output, a key image, or
\* an output with the key image that spends it.
NextSpend ==
    \/ ScanWorker
    \/ Chain
    \/ \E o \in {t \in TxOuts : t.owner = "a"} : AppendSpendingBlock(o)
    \/ create_account("a", None)
    \/ \E ins \in SUBSET DOMAIN txos, t \in 1..(MaxBlocks + 1) :
          submit_transaction("a", ins, {}, t)

SpecSpend == Init /\ [][NextSpend]_vars

\* The scan worker over one account that is created and rewound, and a
\* ledger that grows by deposits.
NextResync ==
    \/ ScanWorker
    \/ ChainOfDeposits
    \/ create_account("a", None)
    \/ resync_account("a")

SpecResync == Init /\ [][NextResync]_vars

\* Blocks that carry an output to account a or the key image that spends one.
ChainOfOwn ==
    \E outputs \in AtMostOne({o \in TxOuts : o.owner = "a"}),
       key_images \in AtMostOne({SpendKeyImage(o) : o \in {t \in TxOuts : t.owner = "a"}}) :
        AppendBlock(outputs, key_images)

\* The scan worker over one account that is created, assigns further
\* subaddresses and is rewound.
NextOrphan ==
    \/ ScanWorker
    \/ ChainOfOwn
    \/ create_account("a", None)
    \/ create_assigned_subaddress("a")
    \/ resync_account("a")

SpecOrphan == Init /\ [][NextOrphan]_vars

\* The scan worker over a full account a and a view-only account b.
NextView ==
    \/ ScanWorker
    \/ Chain
    \/ create_account("a", None)
    \/ import_view_only_account("b")

SpecView == Init /\ [][NextView]_vars

\* The scan worker over one account and a ledger whose blocks carry up to two
\* outputs: the account's, another account's, or one that is malformed.
NextMalformed ==
    \/ ScanWorker
    \/ \E outputs \in SUBSET (TxOuts \cup MalformedTxOuts) : AppendOutputsBlock(outputs)
    \/ create_account("a", None)

SpecMalformed == Init /\ [][NextMalformed]_vars

\* Gift codes checked and claimed over a ledger that grows by the gift Txos
\* and the key images that spend them, with a scan worker over the accounts
\* the wallet holds; the claiming account is b.
ChainOfGifts ==
    \E outputs \in AtMostOne(GiftTxOuts),
       key_images \in AtMostOne({SpendKeyImage(o) : o \in GiftTxOuts}) :
        AppendBlock(outputs, key_images)

NextGift ==
    \/ ScanWorker
    \/ ChainOfGifts
    \/ create_account("a", None)
    \/ \E gift_code \in GiftCodes : CallCheckGiftCodeStatus(gift_code)
    \/ \E gift_code \in GiftCodes, assigned_subaddress_b58 \in {None, Some("b58")} :
          claim_gift_code(gift_code, "b", assigned_subaddress_b58)

SpecGift == Init /\ [][NextGift]_vars

\* Sequences of at most one element of S.
AtMostOneSeq(S) == {<< >>} \cup {<<x>> : x \in S}

\* The calls a wallet makes on WalletDb: accounts as WalletService creates
\* and imports them, an output received by the account it is addressed to,
\* the key images of a block marked for an account, and a submitted proposal.
CountCall ==
    /\ db_calls < MaxDbCalls
    /\ db_calls' = db_calls + 1

NextWalletDb ==
    \/ \E id \in AccountIds, fb \in 0..MaxFirstBlock, nb \in 0..(MaxFirstBlock + 1) :
          /\ nb \in {fb, fb + 1}
          /\ CountCall
          /\ WalletDb_create_account(id, DEFAULT_SUBADDRESS_INDEX,
                                     DEFAULT_CHANGE_SUBADDRESS_INDEX, fb, nb)
    \/ \E id \in AccountIds : CountCall /\ WalletDb_delete_account(id)
    \/ \E o \in TxOuts, h \in 0..(MaxBlocks - 1) :
          /\ o.owner \in DOMAIN db_accounts
          /\ CountCall
          /\ WalletDb_create_received_txo(o, o.sub, SpendKeyImage(o), o.value, h, o.owner)
    \/ \E id \in AccountIds, h \in 0..(MaxBlocks - 1),
          kis \in AtMostOneSeq({SpendKeyImage(o) : o \in TxOuts}) :
          /\ id \in DOMAIN db_accounts
          /\ CountCall
          /\ WalletDb_update_spent_and_increment_next_block(id, h, kis)
    \/ \E utxos \in AtMostOneSeq(TxOuts), outputs \in AtMostOneSeq(TxOuts) :
          /\ CountCall
          /\ WalletDb_update_submitted_transaction(utxos, outputs, MaxBlocks + 1)

SpecWalletDb == Init /\ [][NextWalletDb]_vars

\* ------------------------------------------------------------ properties

\* C1: over a ledger that only grows, no step of the scan worker (a caught-up
\* visit, a committed chunk, an aborted chunk, the start or the end of a
\* tick) lowers the next_block_index of any account.
C1_CursorNeverDecreases ==
    [][ScanWorker =>
        \A a \in DOMAIN accounts :
            /\ a \in DOMAIN accounts'
            /\ accounts'[a].next_block_index >= accounts[a].next_block_index]_vars

\* A chunk has been committed for account a: only a commit takes the cursor
\* two blocks past first_block_index.
C1_Witness ==
    /\ "a" \in DOMAIN accounts
    /\ accounts["a"].next_block_index >= accounts["a"].first_block_index + 2

\* C2: every account of the store has 0 <= next_block_index <= num_blocks,
\* right after create_account or import_account with a first_block the caller
\* chose, and after every chunk commit.
C2_CursorWithinLedger ==
    \A a \in DOMAIN accounts :
        /\ 0 <= accounts[a].next_block_index
        /\ accounts[a].next_block_index <= num_blocks

\* The Txo row of a ledger output o is what a scan of its block by account a
\* records: received at the block of o, with the value of o, and unspent (or
\* pending in a transaction of this wallet) while its key image is not on
\* chain.
ScannedAsReceived(a, o) ==
    /\ TxoID(o) \in DOMAIN txos
    /\ txos[TxoID(o)].account_id = Some(a)
    /\ txos[TxoID(o)].received_block_index = Some(BlockOf(o))
    /\ txos[TxoID(o)].value = o.value
    /\ SpendKeyImage(o) \notin LedgerKeyImages =>
          \/ TxoIsUnspent(txos, transaction_logs, TxoID(o))
          \/ TxoIsPending(txos, transaction_logs, TxoID(o))

\* C3: for every output to an assigned subaddress of account a in a block B
\* with B >= a.first_block_index, once the engine has advanced
\* a.next_block_index past B (a cursor two blocks past first_block_index was
\* advanced by a chunk commit) the wallet holds the Txo of that output,
\* received at B, with the output's value, and unspent while its key image
\* is not on chain.
C3_RoundTrip ==
    \A a \in DOMAIN accounts : \A o \in LedgerOutputs :
        ( /\ o.owner = a
          /\ SubaddressSpendKey(a, o.sub) \in assigned_subaddresses
          /\ BlockOf(o) >= accounts[a].first_block_index
          /\ accounts[a].next_block_index > BlockOf(o)
          /\ accounts[a].next_block_index >= accounts[a].first_block_index + 2 )
        => ScannedAsReceived(a, o)

\* C6: for every account and key image, at most one Txo of the account with
\* that key image is unspent or pending, so the key image -> Txo map of the
\* spend phase holds every such Txo.
C6_OneLiveTxoPerKeyImage ==
    \A a \in AccountIds : \A t1, t2 \in DOMAIN txos :
        ( /\ txos[t1].account_id = Some(a)
          /\ txos[t2].account_id = Some(a)
          /\ IsSome(txos[t1].key_image)
          /\ txos[t1].key_image = txos[t2].key_image
          /\ ~TxoIsSpent(txos, t1)
          /\ ~TxoIsSpent(txos, t2) )
        => t1 = t2

\* Account a holds two unspent Txos with key images, received at the same
\* subaddress.
C6_Witness ==
    \E t1, t2 \in DOMAIN txos :
        /\ t1 # t2
        /\ txos[t1].account_id = Some("a")
        /\ txos[t2].account_id = Some("a")
        /\ TxoIsUnspent(txos, transaction_logs, t1)
        /\ TxoIsUnspent(txos, transaction_logs, t2)
        /\ txos[t1].subaddress_index = txos[t2].subaddress_index
        /\ Cardinality(DOMAIN Txo_list_unspent_or_pending_key_images(txos, "a")) = 2

\* The step inserts a -> false: the entry was absent or true before it.
DepositInserted(a) ==
    /\ a \notin DOMAIN accounts_with_deposits \/ accounts_with_deposits[a] = TRUE
    /\ a \in DOMAIN accounts_with_deposits'
    /\ accounts_with_deposits'[a] = FALSE

\* The step sets the existing entry of a to true.
DepositPromoted(a) ==
    /\ a \in DOMAIN accounts_with_deposits
    /\ accounts_with_deposits[a] = FALSE
    /\ a \in DOMAIN accounts_with_deposits'
    /\ accounts_with_deposits'[a] = TRUE

\* The step commits the chunk step of account a, which received a Txo.
ChunkCommittedWithReceived(a) ==
    /\ sync_pc = "for"
    /\ Head(sync_accounts).id = a
    /\ a \in DOMAIN accounts
    /\ LET done == sync_account_next_chunk(Store, a, assigned_subaddresses)
       IN /\ done.num_received_txos > 0
          /\ accounts' = done.store.accounts
          /\ txos' = done.store.txos
          /\ transaction_logs' = done.store.transaction_logs

\* C7: a -> false is inserted into the Deposit Set exactly by the steps that
\* commit a chunk of a with at least one received Txo, and an entry becomes
\* true only in the visit of a tick whose account row has next_block_index
\* >= the num_blocks that tick read.
C7_DepositSetWrites ==
    [][\A a \in AccountIds :
        /\ DepositInserted(a) => ChunkCommittedWithReceived(a)
        /\ ChunkCommittedWithReceived(a) =>
              /\ a \in DOMAIN accounts_with_deposits'
              /\ accounts_with_deposits'[a] = FALSE
        /\ DepositPromoted(a) =>
              /\ sync_pc = "for"
              /\ Head(sync_accounts).id = a
              /\ Head(sync_accounts).next_block_index >= sync_num_blocks
              /\ sync_num_blocks <= num_blocks]_vars

\* An entry was inserted and promoted: account a is caught up with a Txo and
\* its entry is true.
C7_Witness ==
    /\ "a" \in DOMAIN accounts_with_deposits
    /\ accounts_with_deposits["a"] = TRUE
    /\ "a" \in DOMAIN accounts
    /\ accounts["a"].next_block_index = num_blocks
    /\ \E t \in DOMAIN txos : txos[t].account_id = Some("a")

\* C8: whenever an entry leaves the Deposit Set its value is true in the
\* state the removal acts on.
C8_RemovesOnlyTrue ==
    [][\A a \in DOMAIN accounts_with_deposits :
        a \notin DOMAIN accounts_with_deposits' => accounts_with_deposits[a] = TRUE]_vars

\* C10: a POST names an account only for a Deposit Set insert that no earlier
\* POST has named: the POSTs naming an account never outnumber its inserts,
\* so one deposit gives at most one POST.
C10_NoSecondPost ==
    \A a \in AccountIds : unposted[a] >= 0

\* The one deposit of account a has been posted, its entry is drained, and
\* the scan worker is in a later tick that visits a, which is caught up.
C10_Witness ==
    /\ "a" \in last_post
    /\ unposted["a"] = 0
    /\ "a" \notin DOMAIN accounts_with_deposits
    /\ sync_pc = "for"
    /\ Head(sync_accounts).id = "a"
    /\ IsFullySynced(Head(sync_accounts), sync_num_blocks)

C4_ReceiveAgainSucceeds ==
    [][\A o \in TxOuts :
        ( /\ TxoID(o) \in DOMAIN db_txos
          /\ IsSome(db_txos[TxoID(o)].received_block_height)
          /\ <<o.owner, TxoID(o)>> \in DOMAIN db_account_txo_statuses
          /\ WalletDb_create_received_txo(
                 o, o.sub, SpendKeyImage(o), o.value,
                 Unwrap(db_txos[TxoID(o)].received_block_height), o.owner) )
        => /\ db_result'.result = "Ok"
           /\ db_txos' = db_txos
           /\ db_account_txo_statuses' = db_account_txo_statuses]_vars

\* The statuses of section 3; "unknown" is what a minted output is stored
\* with and stands for secreted.
TxoStatuses == {"unspent", "pending", "spent", "orphaned", "secreted", "unknown"}

\* C5: every Txo has exactly one status, one of the five, and its
\* spent_block_height is set if and only if that status is spent.
C5_OneStatusSpentIffHeight ==
    \A txo_id \in DOMAIN db_txos :
        /\ Cardinality({k \in DOMAIN db_account_txo_statuses : k[2] = txo_id}) = 1
        /\ \A k \in DOMAIN db_account_txo_statuses :
              k[2] = txo_id =>
                  /\ db_account_txo_statuses[k].txo_status \in TxoStatuses
                  /\ IsSome(db_txos[txo_id].spent_block_height)
                        <=> db_account_txo_statuses[k].txo_status = "spent"

\* C11: a step of the webhook worker adds no key to the Deposit Set, changes
\* the value of no entry that stays, and writes neither the restart flag nor
\* the ledger, the wallet store, the scan worker's state or a stop flag: all
\* it does to shared state is remove entries.
C11_WebhookOnlyRemoves ==
    [][WebhookWorker =>
        /\ \A k \in DOMAIN accounts_with_deposits' :
              /\ k \in DOMAIN accounts_with_deposits
              /\ accounts_with_deposits'[k] = accounts_with_deposits[k]
        /\ restart' = restart
        /\ UNCHANGED <<ledger, store_vars, sync_vars, sync_stop_requested,
                       webhook_stop_requested>>]_vars

\* The webhook worker has removed the entry of a, and the false entry of b is
\* still there.
C11_Witness ==
    /\ webhook_pc = "remove"
    /\ removed = {"a"}
    /\ "b" \in DOMAIN accounts_with_deposits
    /\ accounts_with_deposits["b"] = FALSE

\* C12: every POST carries a non-empty accounts list, and an iteration that
\* finds no entry with value true makes no request and goes back to the top
\* of the loop.
C12_PostIsNonEmpty ==
    [][/\ WebhookPost => (accounts_to_send # {} /\ last_post' # {})
       /\ ( /\ WebhookLoop
            /\ ~webhook_stop_requested
            /\ \A k \in DOMAIN accounts_with_deposits :
                  accounts_with_deposits[k] = FALSE )
          => (webhook_pc' = "loop" /\ post_response' = "none" /\ last_post' = {})]_vars

\* A POST that named both accounts came back with a 2xx response.
C12_Witness ==
    /\ post_response = "ok"
    /\ last_post = {"a", "b"}

\* C13: a POST that fails (send error or non-2xx status) leaves the Deposit
\* Set as it is, keeps nothing to send again and takes the worker back to the
\* top of its loop; and a key enters the Deposit Set only by a chunk commit of
\* the engine, so the drained accounts stay absent until the engine inserts
\* them again.
C13_FailedPostIsDropped ==
    [][/\ (WebhookPost /\ post_response' \in {"status_err", "send_err"}) =>
            /\ accounts_with_deposits' = accounts_with_deposits
            /\ accounts_to_send' = {}
            /\ webhook_pc' = "loop"
       /\ \A a \in AccountIds :
            (a \notin DOMAIN accounts_with_deposits /\ a \in DOMAIN accounts_with_deposits')
                => ChunkCommittedWithReceived(a)]_vars

\* The POST that named a failed in send(), a has no entry, and the worker is
\* back at the top of its loop.
C13_Witness ==
    /\ post_response = "send_err"
    /\ "a" \in last_post
    /\ "a" \notin DOMAIN accounts_with_deposits
    /\ webhook_pc = "loop"

\* C14: the scan worker has left its loop only if stop was requested: no
\* error of the ledger or of the wallet store ends the thread.
C14_LeavesLoopOnlyOnStop ==
    sync_pc \notin {"loop", "for"} => sync_stop_requested

\* C15: once stop is requested of a worker it starts no further iteration,
\* and it ends up stopped (so that join returns): the scan worker at the top
\* of its loop after the tick it is in, the webhook worker after the
\* iteration it is in.
C15_StopEndsWorkers ==
    /\ [][(sync_stop_requested /\ sync_pc = "loop") => sync_pc' # "for"]_vars
    /\ [][(webhook_stop_requested /\ webhook_pc = "loop") => webhook_pc' # "remove"]_vars
    /\ sync_stop_requested ~> (sync_pc = "stopped")
    /\ webhook_stop_requested ~> (webhook_pc = "stopped")

C17_NothingToScanChangesNothing ==
    [][/\ (ScanWorker /\ num_blocks = 0) =>
            /\ UNCHANGED <<store_vars, accounts_with_deposits>>
            /\ sync_pc' = "loop"
       /\ \A a \in DOMAIN accounts :
            (CallChunk(a) /\ accounts[a].next_block_index >= num_blocks) =>
                /\ chunk_return' = <<"Ok", 0>>
                /\ UNCHANGED <<store_vars, accounts_with_deposits>>]_vars

\* A direct call of the chunk step for account a, which holds a Txo and is
\* at the tip, has returned 0.
C17_Witness ==
    /\ chunk_return = <<"Ok", 0>>
    /\ "a" \in DOMAIN accounts
    /\ num_blocks >= 1
    /\ accounts["a"].next_block_index = num_blocks
    /\ \E t \in DOMAIN txos : txos[t].account_id = Some("a")

\* The step logs a submitted transaction.
LogsSubmitted ==
    Len(transaction_logs') = Len(transaction_logs) + 1

\* The step commits a chunk of account a that contains, at a block index
\* <= the tombstone of log n, the key image of the Txo x of a, an input of n.
ScansSpendOf(a, n, x) ==
    /\ SyncChunk
    /\ Head(sync_accounts).id = a
    /\ x \in transaction_logs[n].input_txos
    /\ x \in DOMAIN txos
    /\ txos[x].account_id = Some(a)
    /\ \E k \in BlocksRead(accounts[a].next_block_index) :
          /\ k <= transaction_logs[n].tombstone_block_index
          /\ txos[x].key_image \subseteq ledger[k + 1].key_images
          /\ IsSome(txos[x].key_image)

\* C18: right after a transaction is submitted and logged each input X is
\* pending and no longer unspent (the unspent balance of the account drops
\* and its pending balance rises by the value of the inputs) and each minted
\* output is secreted; and a chunk step that scans the key image of X at a
\* block index <= the tombstone leaves X spent and the log succeeded.
C18_PendingThenSucceeded ==
    [][/\ LogsSubmitted =>
            LET log == transaction_logs'[Len(transaction_logs')]
                a == log.account_id
                spent_value == SumValues(txos, log.input_txos)
            IN /\ \A x \in log.input_txos :
                     TxoStatusOf(txos', transaction_logs', x) = "pending"
               /\ \A o \in log.output_txos :
                     TxoStatusOf(txos', transaction_logs', o) = "secreted"
               /\ get_balance(txos', transaction_logs', a, "unspent")
                     = get_balance(txos, transaction_logs, a, "unspent") - spent_value
               /\ get_balance(txos', transaction_logs', a, "pending")
                     = get_balance(txos, transaction_logs, a, "pending") + spent_value
       /\ \A a \in AccountIds : \A n \in DOMAIN transaction_logs :
            \A x \in transaction_logs[n].input_txos :
                ScansSpendOf(a, n, x) =>
                    /\ TxoStatusOf(txos', transaction_logs', x) = "spent"
                    /\ transaction_logs'[n].status = "succeeded"]_vars

\* The step commits a chunk of account a, the owner of log n, that takes the
\* cursor of a past block T + 1, T the tombstone of n, and no block that a
\* has scanned by then holds the key image of an input of n.
ScansPastTombstone(a, n) ==
    /\ SyncChunk
    /\ Head(sync_accounts).id = a
    /\ transaction_logs[n].account_id = a
    /\ accounts[a].next_block_index <= transaction_logs[n].tombstone_block_index + 1
    /\ accounts'[a].next_block_index > transaction_logs[n].tombstone_block_index + 1
    /\ \A x \in transaction_logs[n].input_txos :
          \A k \in 0..(accounts'[a].next_block_index - 1) :
              txos[x].key_image \cap ledger[k + 1].key_images = {}

\* C19: when the engine has scanned past block T + 1, T the tombstone of a
\* submitted transaction, and the key image of its input X has not appeared,
\* the TransactionLog is failed and X is unspent again (unless a transaction
\* submitted since holds X pending).
C19_TombstoneExpiry ==
    [][\A a \in AccountIds : \A n \in DOMAIN transaction_logs :
          ScansPastTombstone(a, n) =>
              /\ transaction_logs'[n].status = "failed"
              /\ \A x \in transaction_logs[n].input_txos :
                    \/ TxoStatusOf(txos', transaction_logs', x) = "unspent"
                    \/ \E m \in DOMAIN transaction_logs' \ {n} :
                          /\ x \in transaction_logs'[m].input_txos
                          /\ transaction_logs'[m].status = "pending"]_vars

\* The engine has scanned past block T + 1 without the key image of X: the
\* log is failed and X is unspent.
C19_Witness ==
    \E n \in DOMAIN transaction_logs :
        LET log == transaction_logs[n]
        IN /\ log.status = "failed"
           /\ log.account_id \in DOMAIN accounts
           /\ accounts[log.account_id].next_block_index > log.tombstone_block_index + 1
           /\ \E x \in log.input_txos :
                 /\ TxoStatusOf(txos, transaction_logs, x) = "unspent"
                 /\ \A k \in 1..Len(ledger) :
                       txos[x].key_image \cap ledger[k].key_images = {}

\* The step is a chunk step of account a, run by the scan worker or called
\* directly, that starts at a block the ledger holds.
ChunkStepReadingBlocks(a) ==
    /\ a \in DOMAIN accounts
    /\ accounts[a].next_block_index < num_blocks
    /\ \/ SyncChunk /\ Head(sync_accounts).id = a
       \/ CallChunk(a)

\* C20: a chunk step that starts at start = next_block_index and reads at
\* least one block sets next_block_index to end + 1, where
\* end = min(start + BLOCKS_CHUNK_SIZE - 1, num_blocks - 1) is the last block
\* read; the cursor advances by at least 1 and at most BLOCKS_CHUNK_SIZE, and
\* the blocks read are exactly start..end.
C20_ChunkAdvancesToEndPlusOne ==
    [][\A a \in AccountIds :
          ChunkStepReadingBlocks(a) =>
              LET start == accounts[a].next_block_index
                  end == IF start + BLOCKS_CHUNK_SIZE - 1 < num_blocks - 1
                         THEN start + BLOCKS_CHUNK_SIZE - 1
                         ELSE num_blocks - 1
                  next == accounts'[a].next_block_index
              IN /\ next = end + 1
                 /\ next - start >= 1
                 /\ next - start <= BLOCKS_CHUNK_SIZE
                 /\ BlocksRead(start) = start..end]_vars

\* A direct call of the chunk step for account a has read BLOCKS_CHUNK_SIZE
\* blocks from block 0, finding an output in each, on a ledger that holds
\* more blocks.
C20_Witness ==
    /\ chunk_return = <<"Ok", BLOCKS_CHUNK_SIZE>>
    /\ "a" \in DOMAIN accounts
    /\ accounts["a"].first_block_index = 0
    /\ accounts["a"].next_block_index = BLOCKS_CHUNK_SIZE
    /\ num_blocks > BLOCKS_CHUNK_SIZE

\* next_block_index >= ledger.num_blocks()
CaughtUp(a) == a \in DOMAIN accounts /\ accounts[a].next_block_index >= num_blocks

\* C21: with a ledger that stops growing, no ledger or store error and a
\* scan worker that keeps running, every account that exists eventually is
\* caught up (next_block_index >= num_blocks), and an account that is caught
\* up stays so while the ledger does not grow.
C21_EveryAccountCatchesUp ==
    /\ \A a \in AccountIds : (a \in DOMAIN accounts) ~> CaughtUp(a)
    /\ [][\A a \in AccountIds :
            (CaughtUp(a) /\ ledger' = ledger) =>
                /\ a \in DOMAIN accounts'
                /\ accounts'[a].next_block_index >= Len(ledger')]_vars

\* Both accounts are caught up on a ledger longer than one chunk, a holding
\* a Txo.
C21_Witness ==
    /\ num_blocks > BLOCKS_CHUNK_SIZE
    /\ CaughtUp("a") /\ CaughtUp("b")
    /\ \E t \in DOMAIN txos : txos[t].account_id = Some("a")

\* The step is a chunk step of account a, in a tick or called directly, that
\* aborts.
ChunkStepAborts(a) ==
    \/ SyncChunkError /\ Head(sync_accounts).id = a
    \/ CallChunkAborts(a)

\* C22: a chunk step that aborts leaves the wallet store as it was before
\* the step (no Txo created or marked spent, no TransactionLog changed, the
\* cursor not advanced) and inserts no Deposit Set entry; the next step of
\* the account starts at the same block index.
C22_AbortChangesNothing ==
    [][\A a \in AccountIds :
          ChunkStepAborts(a) =>
              /\ UNCHANGED <<accounts, assigned_subaddresses, txos, transaction_logs>>
              /\ UNCHANGED accounts_with_deposits
              /\ a \in DOMAIN accounts =>
                    BlocksRead(accounts'[a].next_block_index)
                        = BlocksRead(accounts[a].next_block_index)]_vars

\* A direct call of the chunk step for account a has aborted; a is still
\* behind the tip, an output addressed to it is on the ledger, and it holds
\* no Txo.
C22_Witness ==
    /\ chunk_return = <<"Err", "aborted">>
    /\ "a" \in DOMAIN accounts
    /\ accounts["a"].next_block_index < num_blocks
    /\ \E o \in LedgerOutputs : o.owner = "a" /\ o.sub = DEFAULT_SUBADDRESS_INDEX
    /\ \A t \in DOMAIN txos : txos[t].account_id # Some("a")

\* C23: when the account was deleted before the chunk step runs (it was
\* created, its subaddress rows are there, and the reload inside the
\* exclusive transaction finds no account row), the chunk step returns 0
\* without error and changes nothing.
C23_DeletedAccountReturnsZero ==
    [][\A a \in AccountIds :
          ( /\ CallChunk(a)
            /\ a \notin DOMAIN accounts
            /\ SubaddressSpendKey(a, DEFAULT_SUBADDRESS_INDEX) \in assigned_subaddresses ) =>
              /\ chunk_return' = <<"Ok", 0>>
              /\ UNCHANGED <<accounts, assigned_subaddresses, txos, transaction_logs,
                             accounts_with_deposits>>]_vars

\* C24: when the chunk step of one account fails within a tick, only that
\* account is skipped: the tick goes on with the accounts of its list that
\* are still to visit, so that those behind the tip get their chunk step in
\* the same tick.
C24_FailureSkipsOneAccount ==
    [][(SyncChunkError /\ Len(sync_accounts) > 1) =>
          /\ sync_pc' = "for"
          /\ sync_accounts' = Tail(sync_accounts)]_vars

\* The chunk that a step of the for loop reads for account a holds, at
\* block i, the output o, owned by a at an assigned subaddress, and at block
\* j >= i the key image that spends o.
ChunkReceivesAndSpends(a, o, i, j) ==
    /\ Head(sync_accounts).id = a
    /\ ~accounts[a].view_only
    /\ o.owner = a
    /\ SubaddressSpendKey(a, o.sub) \in assigned_subaddresses
    /\ {i, j} \subseteq BlocksRead(accounts[a].next_block_index)
    /\ j >= i
    /\ o \in ledger[i + 1].outputs
    /\ SpendKeyImage(o) \in ledger[j + 1].key_images

\* C25: a chunk step whose chunk holds an output of a full account at an
\* assigned subaddress and, at the same or a later block, the key image of
\* that output leaves the Txo spent, with spent_block_index the block of the
\* key image.
C25_ReceiveBeforeSpend ==
    [][SyncChunk =>
        \A a \in AccountIds : \A o \in TxOuts : \A i, j \in 0..(Len(ledger) - 1) :
          ChunkReceivesAndSpends(a, o, i, j) =>
              /\ TxoID(o) \in DOMAIN txos'
              /\ txos'[TxoID(o)].account_id = Some(a)
              /\ txos'[TxoID(o)].received_block_index = Some(i)
              /\ txos'[TxoID(o)].spent_block_index = Some(j)]_vars

\* A Txo of a is received and spent at the same block: one chunk step wrote
\* both.
C25_Witness ==
    \E t \in DOMAIN txos :
        /\ txos[t].account_id = Some("a")
        /\ IsSome(txos[t].received_block_index)
        /\ txos[t].spent_block_index = txos[t].received_block_index

\* The block of the chunk read for account a that holds the key image of the
\* Txo x, if x is a Txo of a that was not spent before the step and has a
\* key image once the chunk's outputs are received: a set of at most one
\* block index.
SpendBlockInChunk(a, x) ==
    IF /\ x \in DOMAIN txos'
       /\ txos'[x].account_id = Some(a)
       /\ x \in DOMAIN txos => txos[x].spent_block_index = None
    THEN {i \in BlocksRead(accounts[a].next_block_index) :
             txos'[x].key_image \cap ledger[i + 1].key_images # {}}
    ELSE {}

\* The blocks of the chunk that hold the key image of an input of log n.
SpendBlocksOfLog(a, n) ==
    UNION {SpendBlockInChunk(a, x) : x \in transaction_logs[n].input_txos}

\* C26: a chunk step of account a sets, for each key image of the chunk at
\* block i that is the key image of an unspent or pending Txo of a, the
\* spent_block_index of that Txo to i, and makes every pending log that has
\* the Txo as an input succeeded at the block where the first of its inputs'
\* key images is found; a Txo whose key image is not matched keeps its
\* spent_block_index, and a log none of whose inputs is matched is not
\* succeeded by the step.
C26_KeyImagesMarkSpent ==
    [][SyncChunk =>
        LET a == Head(sync_accounts).id
        IN /\ DOMAIN txos \subseteq DOMAIN txos'
           /\ \A x \in DOMAIN txos' :
                /\ \A i \in SpendBlockInChunk(a, x) :
                      txos'[x].spent_block_index = Some(i)
                /\ SpendBlockInChunk(a, x) = {} =>
                      txos'[x].spent_block_index =
                          IF x \in DOMAIN txos THEN txos[x].spent_block_index ELSE None
           /\ \A n \in DOMAIN transaction_logs :
                IF transaction_logs[n].status = "pending" /\ SpendBlocksOfLog(a, n) # {}
                THEN /\ transaction_logs'[n].status = "succeeded"
                     /\ \E i \in SpendBlocksOfLog(a, n) :
                           /\ transaction_logs'[n].finalized_block_index = Some(i)
                           /\ \A j \in SpendBlocksOfLog(a, n) : i <= j
                ELSE /\ transaction_logs'[n].status = "succeeded"
                           => transaction_logs[n].status = "succeeded"
                     /\ transaction_logs'[n].finalized_block_index
                           = transaction_logs[n].finalized_block_index]_vars

\* The Txo of a that a submitted transaction consumes is spent at block i
\* and the log is succeeded at block i, after b too has scanned block i.
C26_Witness ==
    \E n \in DOMAIN transaction_logs : \E x \in transaction_logs[n].input_txos :
        /\ transaction_logs[n].status = "succeeded"
        /\ IsSome(txos[x].spent_block_index)
        /\ transaction_logs[n].finalized_block_index = txos[x].spent_block_index
        /\ txos[x].account_id = Some("a")
        /\ "b" \in DOMAIN accounts
        /\ accounts["b"].next_block_index > Unwrap(txos[x].spent_block_index)

\* The key image of the Txo x is on the ledger at a block index <= t.
KeyImageOnChainBy(x, t) ==
    \E k \in 0..(Len(ledger) - 1) :
        /\ k <= t
        /\ txos[x].key_image \cap ledger[k + 1].key_images # {}

\* C27: a TransactionLog is succeeded only when the key image of every one of
\* its inputs is on chain at a block index <= its tombstone_block_index; a
\* log of which only some inputs' key images have appeared is still pending.
C27_SucceededOnlyWithAllInputs ==
    \A n \in DOMAIN transaction_logs :
        transaction_logs[n].status = "succeeded" =>
            \A x \in transaction_logs[n].input_txos :
                KeyImageOnChainBy(x, transaction_logs[n].tombstone_block_index)

\* What a chunk step that ends at block `end` makes of the logs, when the
\* sweep fails the pending logs with a tombstone <= threshold: a pending log
\* with an input whose key image is in the chunk is succeeded, any other
\* pending log is failed if its tombstone is <= threshold and stays pending
\* if not, and no other log changes its status.
SweepLeaves(a, threshold) ==
    \A n \in DOMAIN transaction_logs :
        transaction_logs'[n].status =
            IF transaction_logs[n].status # "pending"
            THEN transaction_logs[n].status
            ELSE IF SpendBlocksOfLog(a, n) # {} THEN "succeeded"
            ELSE IF transaction_logs[n].tombstone_block_index <= threshold THEN "failed"
            ELSE "pending"

\* The last block the chunk step of the for loop reads.
EndOfChunk == SetMax(BlocksRead(accounts[Head(sync_accounts).id].next_block_index))

\* C28, as stated: at the end of a chunk step whose last block is end, every
\* log still pending with tombstone_block_index <= end + 1 is failed and no
\* pending log with a larger tombstone is; a log with an input key image in
\* the same chunk is succeeded, not failed.
C28_SweepAtEndPlusOne ==
    [][SyncChunk => SweepLeaves(Head(sync_accounts).id, EndOfChunk + 1)]_vars

\* C28, amended: at the end of a chunk step whose last block is end, every
\* log still pending with tombstone_block_index <= end (that is, < end + 1)
\* is failed and no pending log with a larger tombstone is; a log with an
\* input key image in the same chunk is succeeded, not failed.
C28_SweepBelowEndPlusOne ==
    [][SyncChunk => SweepLeaves(Head(sync_accounts).id, EndOfChunk)]_vars

\* A log is still pending although its owner has scanned, since the
\* transaction was submitted, up to the block before its tombstone.
C28_Witness ==
    \E n \in DOMAIN transaction_logs :
        LET log == transaction_logs[n]
        IN /\ log.status = "pending"
           /\ log.account_id \in DOMAIN accounts
           /\ accounts[log.account_id].next_block_index = log.tombstone_block_index
           /\ log.submitted_block_index < log.tombstone_block_index

\* C29: a pending TransactionLog is set to failed only by a step after which
\* the next_block_index of the account that owns it exceeds the log's
\* tombstone: the chunk step of another account that is further ahead does
\* not fail it while its owner has not scanned the blocks up to the
\* tombstone.
C29_FailedOnlyPastOwnCursor ==
    [][\A n \in DOMAIN transaction_logs :
          ( /\ transaction_logs[n].status = "pending"
            /\ transaction_logs'[n].status = "failed"
            /\ transaction_logs[n].account_id \in DOMAIN accounts' ) =>
              accounts'[transaction_logs[n].account_id].next_block_index
                  > transaction_logs[n].tombstone_block_index]_vars

\* C30: a chunk step that brings a resyncing account to the tip
\* (end + 1 >= num_blocks) clears the resyncing flag in the transaction that
\* advances next_block_index: the step commits no state where the account is
\* caught up and resyncing is still true.
C30_ResyncingClearedAtTip ==
    [][SyncChunk =>
        LET a == Head(sync_accounts).id
        IN ( /\ accounts[a].resyncing
             /\ accounts'[a].next_block_index >= Len(ledger') ) =>
                ~accounts'[a].resyncing]_vars

\* Account a holds a Txo it received at or after its cursor: the cursor was
\* set back below a block that had been scanned and has not passed it again.
RangeNotRescanned(rows, table, a) ==
    \E x \in DOMAIN table :
        /\ table[x].account_id = Some(a)
        /\ IsSome(table[x].received_block_index)
        /\ Unwrap(table[x].received_block_index) >= rows[a].next_block_index

\* C31: under any interleaving of the scan worker with a rewind, right after
\* the engine clears resyncing for an account the account is not left with
\* resyncing false, its cursor below the tip and blocks of the rewind's range
\* still to be scanned again.
C31_ClearOnlyWhenCaughtUp ==
    [][SyncFullySynced =>
        LET account == Head(sync_accounts)
        IN ( /\ account.resyncing
             /\ account.id \in DOMAIN accounts ) =>
                ~( /\ ~accounts'[account.id].resyncing
                   /\ accounts'[account.id].next_block_index < Len(ledger')
                   /\ RangeNotRescanned(accounts', txos', account.id) )]_vars

\* The outputs of the blocks the next chunk step of account a reads whose
\* amount decrypts under a's view key and whose recovered subaddress spend
\* key is not assigned: <<block_index, tx_out>>.
OrphanOutputsRead(a) ==
    {p \in ChunkTxOuts(BlocksRead(accounts[a].next_block_index)) :
        /\ IsSome(decode_amount(p[2], ViewPrivateKey(a)))
        /\ recover_public_subaddress_spend_key(ViewPrivateKey(a), p[2])
              \notin assigned_subaddresses}

\* C32: an output that decrypts for the account but matches none of its
\* assigned subaddresses is recorded by the chunk step as a Txo without
\* subaddress index and without key image, of status orphaned; the step
\* counts it as received, so the account gets its Deposit Set entry; and no
\* chunk step leaves a Txo that has no subaddress index marked spent.
C32_OrphanRecordedNeverSpent ==
    [][SyncChunk =>
        LET a == Head(sync_accounts).id
        IN /\ \A p \in OrphanOutputsRead(a) :
                LET x == TxoID(p[2])
                IN /\ x \in DOMAIN txos'
                   /\ txos'[x].account_id = Some(a)
                   /\ txos'[x].subaddress_index = None
                   /\ txos'[x].key_image = None
                   /\ txos'[x].received_block_index = Some(p[1])
                   /\ TxoStatusOf(txos', transaction_logs', x) = "orphaned"
                   /\ a \in DOMAIN accounts_with_deposits'
                   /\ ~accounts_with_deposits'[a]
           /\ \A x \in DOMAIN txos' :
                ( /\ txos'[x].subaddress_index = None
                  /\ IsSome(txos'[x].received_block_index) ) =>
                    txos'[x].spent_block_index = None]_vars

\* An orphaned Txo whose owner has scanned past the block that carries the
\* key image spending it.
C32_Witness ==
    \E o \in TxOuts :
        /\ TxoID(o) \in DOMAIN txos
        /\ txos[TxoID(o)].subaddress_index = None
        /\ IsSome(txos[TxoID(o)].received_block_index)
        /\ SpendKeyImage(o) \in LedgerKeyImages
        /\ o.owner \in DOMAIN accounts
        /\ accounts[o.owner].next_block_index = Len(ledger)
        /\ o.owner \in DOMAIN accounts_with_deposits

\* The outputs of the blocks the next chunk step of account a reads that a
\* holds as orphaned Txos and whose subaddress is assigned by now:
\* <<block_index, tx_out>>.
OrphansRescanned(a) ==
    {p \in ChunkTxOuts(BlocksRead(accounts[a].next_block_index)) :
        /\ TxoID(p[2]) \in DOMAIN txos
        /\ txos[TxoID(p[2])].account_id = Some(a)
        /\ TxoIsOrphaned(txos, transaction_logs, TxoID(p[2]))
        /\ IsSome(decode_amount(p[2], ViewPrivateKey(a)))
        /\ recover_public_subaddress_spend_key(ViewPrivateKey(a), p[2])
              \in assigned_subaddresses}

DecryptedOutputsRead(a) ==
    {p \in ChunkTxOuts(BlocksRead(accounts[a].next_block_index)) :
        IsSome(decode_amount(p[2], ViewPrivateKey(a)))}

\* C34: a chunk step of a view-only account writes every Txo it receives
\* without key image and leaves no Txo of the account spent, whatever key
\* images the blocks carry; a chunk step of a full account writes a received
\* Txo with a key image exactly when it found the subaddress index, which is
\* exactly when the output's subaddress is assigned.
C34_ViewOnlyHasNoKeyImage ==
    [][SyncChunk =>
        LET a == Head(sync_accounts).id
        IN IF accounts[a].view_only
           THEN /\ \A p \in DecryptedOutputsRead(a) :
                     /\ TxoID(p[2]) \in DOMAIN txos'
                     /\ txos'[TxoID(p[2])].key_image = None
                /\ \A x \in DOMAIN txos' :
                     txos'[x].account_id = Some(a) => txos'[x].spent_block_index = None
           ELSE \A p \in DecryptedOutputsRead(a) :
                     /\ TxoID(p[2]) \in DOMAIN txos'
                     /\ IsSome(txos'[TxoID(p[2])].key_image)
                          <=> IsSome(txos'[TxoID(p[2])].subaddress_index)
                     /\ IsSome(txos'[TxoID(p[2])].subaddress_index)
                          <=> SubaddressSpendKey(a, p[2].sub) \in assigned_subaddresses
                     /\ IsSome(txos'[TxoID(p[2])].key_image) =>
                          txos'[TxoID(p[2])].key_image = Some(SpendKeyImage(p[2]))]_vars

\* A view-only account has scanned past both an output of its own, held as
\* an unspent Txo, and the key image that spends that output.
C34_Witness ==
    \E o \in TxOuts :
        /\ o.owner \in DOMAIN accounts
        /\ accounts[o.owner].view_only
        /\ TxoID(o) \in DOMAIN txos
        /\ IsSome(txos[TxoID(o)].subaddress_index)
        /\ txos[TxoID(o)].spent_block_index = None
        /\ SpendKeyImage(o) \in LedgerKeyImages
        /\ accounts[o.owner].next_block_index = Len(ledger)

\* The outputs of the blocks the next chunk step of account a reads that are
\* not a's to decode: the public key is not a curve point, or the amount is
\* masked for another view key.  <<block_index, tx_out>>
NotOursRead(a) ==
    {p \in ChunkTxOuts(BlocksRead(accounts[a].next_block_index)) :
        ~IsCurvePoint(p[2].pk) \/ p[2].owner # a}

\* C35: a chunk step skips every output whose public key is not a curve
\* point or whose amount does not decrypt under the account's view key: the
\* step commits, no Txo is made of such an output and it is not counted as
\* received (a step that reads only such outputs leaves the Deposit Set as it
\* is); every other output of the chunk becomes a Txo of the account, counted
\* as received, and the cursor is one past the last block read.
C35_MalformedOutputSkipped ==
    [][SyncChunk =>
        LET a == Head(sync_accounts).id
            blocks == BlocksRead(accounts[a].next_block_index)
            ours == ChunkTxOuts(blocks) \ NotOursRead(a)
        IN /\ \A p \in NotOursRead(a) : TxoID(p[2]) \notin DOMAIN txos'
           /\ \A p \in ours :
                /\ TxoID(p[2]) \in DOMAIN txos'
                /\ txos'[TxoID(p[2])].account_id = Some(a)
                /\ txos'[TxoID(p[2])].received_block_index = Some(p[1])
           /\ IF ours = {}
              THEN /\ accounts_with_deposits' = accounts_with_deposits
                   /\ unposted' = unposted
              ELSE /\ a \in DOMAIN accounts_with_deposits'
                   /\ ~accounts_with_deposits'[a]
                   /\ unposted'[a] = unposted[a] + 1
           /\ blocks # {} => accounts'[a].next_block_index = SetMax(blocks) + 1]_vars

\* A block carries a malformed output next to an output of account a; a has
\* scanned the ledger and holds the second as a Txo and the first as none.
C35_Witness ==
    \E i \in 1..Len(ledger) :
        \E m \in ledger[i].outputs \cap MalformedTxOuts :
            \E o \in ledger[i].outputs \cap TxOuts :
                /\ o.owner \in DOMAIN accounts
                /\ accounts[o.owner].next_block_index = Len(ledger)
                /\ TxoID(o) \in DOMAIN txos
                /\ TxoID(m) \notin DOMAIN txos

\* Account a holds a Txo the scan received.
HasReceived(a) ==
    \E x \in DOMAIN txos :
        txos[x].account_id = Some(a) /\ IsSome(txos[x].received_block_index)

\* C36: the caught-up branch gives no Deposit Set entry to an account that
\* has none, and the webhook worker collects and posts only accounts that
\* have received a Txo: an account that is caught up and never receives a
\* deposit is never announced.
C36_CaughtUpCreatesNoEntry ==
    /\ [][SyncFullySynced =>
            (Head(sync_accounts).id \notin DOMAIN accounts_with_deposits =>
                accounts_with_deposits' = accounts_with_deposits)]_vars
    /\ [](\A a \in AccountIds :
            (a \in DOMAIN accounts_with_deposits \/ a \in accounts_to_send
                \/ a \in last_post) => HasReceived(a))

\* Account a is visited as caught up, with no Deposit Set entry and no Txo,
\* after a POST has announced account b, on a ledger that has blocks.
C36_Witness ==
    /\ sync_pc = "for"
    /\ Head(sync_accounts).id = "a"
    /\ IsFullySynced(Head(sync_accounts), sync_num_blocks)
    /\ "a" \notin DOMAIN accounts_with_deposits
    /\ ~HasReceived("a")
    /\ "b" \in last_post

\* C37: from the step in which the webhook worker sees stop_requested at the
\* top of an iteration, the worker stays stopped, no entry leaves the Deposit
\* Set and no POST is made: the entries that were in the Deposit Set stay.
C37_NoDrainAfterStop ==
    [][( /\ webhook_pc = "stopped" => webhook_pc' = "stopped" )
       /\ ( webhook_pc' = "stopped" =>
              /\ DOMAIN accounts_with_deposits \subseteq DOMAIN accounts_with_deposits'
              /\ UNCHANGED <<accounts_to_send, removed, last_post, post_response>>
              /\ unposted' = unposted \/ SyncChunk )]_vars

\* The webhook worker has stopped while account a has an entry with value
\* true, which the next iteration would have announced, and the scan worker
\* is in a tick.
C37_Witness ==
    /\ webhook_pc = "stopped"
    /\ "a" \in DOMAIN accounts_with_deposits
    /\ accounts_with_deposits["a"] = TRUE
    /\ sync_pc = "for"

\* Every Txo of an account that exists was received, and if spent was spent,
\* at a block below the account's cursor.
EffectsBelowCursor ==
    \A x \in DOMAIN txos : \A a \in DOMAIN accounts :
        txos[x].account_id = Some(a) =>
            /\ \A i \in txos[x].received_block_index : i < accounts[a].next_block_index
            /\ \A i \in txos[x].spent_block_index : i < accounts[a].next_block_index

\* C38: without rewinds, in every state of the wallet store each Txo of an
\* account has its received_block_index and, when set, its
\* spent_block_index below the account's next_block_index; and the chunk
\* step that moves the cursor past a block commits with it the effects of
\* that block: a Txo received at that block for each of its outputs that
\* decrypts for the account, and the spent_block_index of each Txo of the
\* account whose key image the block carries.
C38_EffectsCommittedWithCursor ==
    /\ []EffectsBelowCursor
    /\ [][SyncChunk =>
            LET a == Head(sync_accounts).id
                blocks == BlocksRead(accounts[a].next_block_index)
            IN /\ \A i \in blocks : i < accounts'[a].next_block_index
               /\ \A p \in DecryptedOutputsRead(a) :
                    /\ TxoID(p[2]) \in DOMAIN txos'
                    /\ txos'[TxoID(p[2])].received_block_index = Some(p[1])
               /\ \A k \in ChunkKeyImages(blocks) : \A x \in DOMAIN txos' :
                    ( /\ txos'[x].account_id = Some(a)
                      /\ txos'[x].key_image = Some(k[2]) ) =>
                        /\ IsSome(txos'[x].spent_block_index)
                        /\ Unwrap(txos'[x].spent_block_index) <= k[1]]_vars

\* A Txo of an account was spent at the last block below the account's
\* cursor.
C38_Witness ==
    \E x \in DOMAIN txos : \E a \in DOMAIN accounts :
        /\ txos[x].account_id = Some(a)
        /\ txos[x].spent_block_index = Some(accounts[a].next_block_index - 1)
        /\ IsSome(txos[x].received_block_index)

\* C39: every account has next_block_index >= first_block_index, and once an
\* account is caught up the wallet holds, for every output of the account in
\* a block at or after its first_block_index, the Txo received at that
\* block: no such block was left unscanned.
C39_NoBlockFromFirstUnscanned ==
    \A a \in DOMAIN accounts :
        /\ accounts[a].next_block_index >= accounts[a].first_block_index
        /\ accounts[a].next_block_index >= num_blocks =>
              \A o \in LedgerOutputs :
                  ( /\ IsSome(decode_amount(o, ViewPrivateKey(a)))
                    /\ BlockOf(o) >= accounts[a].first_block_index ) =>
                      /\ TxoID(o) \in DOMAIN txos
                      /\ txos[TxoID(o)].received_block_index = Some(BlockOf(o))

\* The status the ledger gives a gift code: pending while its Txo is not on
\* chain, claimed once the Txo and the key image that spends it are on
\* chain, available in between.
LedgerStatus(gift_code) ==
    LET gift_txo == get_tx_out_by_public_key(gift_code.txo_public_key)
    IN IF gift_txo = None THEN "GiftCodeSubmittedPending"
       ELSE IF SpendKeyImage(Unwrap(gift_txo)) \in LedgerKeyImages
       THEN "GiftCodeClaimed"
       ELSE "GiftCodeAvailable"

\* The order of the statuses; a call that reports none ranks lowest.
StatusRank(checked) ==
    IF checked[1] = "panic" THEN 0 - 1
    ELSE IF checked[2] = "GiftCodeSubmittedPending" THEN 0
    ELSE IF checked[2] = "GiftCodeAvailable" THEN 1
    ELSE 2

\* A call of check_gift_code_status reports the status the ledger gives the
\* gift code.
ReportsLedgerStatus(gift_code) ==
    ( /\ gift_code_result'.op = "check_gift_code_status"
      /\ gift_code_result'.gift_code = gift_code
      /\ CallCheckGiftCodeStatus(gift_code) ) =>
        /\ gift_code_result'.result[1] = "Ok"
        /\ gift_code_result'.result[2] = LedgerStatus(gift_code)

\* The status check_gift_code_status would report does not move backward.
StatusMovesForward(gift_code) ==
    StatusRank(check_gift_code_status(gift_code)') >=
        StatusRank(check_gift_code_status(gift_code))

\* A call of claim_gift_code on a pending or claimed gift code is rejected
\* with the error of that status.
ClaimRejectedUnlessAvailable(gift_code) ==
    ( /\ gift_code_result'.op = "claim_gift_code"
      /\ gift_code_result'.gift_code = gift_code
      /\ \E assigned_subaddress_b58 \in {None, Some("b58")} :
            claim_gift_code(gift_code, "b", assigned_subaddress_b58) ) =>
        /\ LedgerStatus(gift_code) = "GiftCodeSubmittedPending" =>
              gift_code_result'.result = <<"Err", "GiftCodeNotYetAvailable">>
        /\ LedgerStatus(gift_code) = "GiftCodeClaimed" =>
              gift_code_result'.result = <<"Err", "GiftCodeClaimed">>

\* The gift codes build_gift_code makes: the Txo is one sent to the main
\* subaddress of the gift account.
BuiltGiftCodes ==
    {g \in GiftCodes : \E o \in TxOuts :
        /\ o.pk = g.txo_public_key
        /\ o \in GiftTxOuts
        /\ o.owner = g.root_entropy
        /\ o.sub = DEFAULT_SUBADDRESS_INDEX}

\* C40: check_gift_code_status reports GiftCodeSubmittedPending exactly when
\* the gift Txo's public key is not in the ledger, GiftCodeClaimed exactly
\* when the Txo and its key image are in the ledger, and GiftCodeAvailable
\* otherwise; as the ledger grows the reported status of a gift code only
\* moves forward; and claim_gift_code is rejected with
\* GiftCodeNotYetAvailable in the first state and GiftCodeClaimed in the last.
C40_GiftCodeStatusFollowsLedger ==
    [][\A gift_code \in GiftCodes :
          /\ ReportsLedgerStatus(gift_code)
          /\ StatusMovesForward(gift_code)
          /\ ClaimRejectedUnlessAvailable(gift_code)]_vars

\* The same three properties, for the gift codes build_gift_code makes.
GiftCodeStatusFollowsLedgerForBuilt ==
    [][\A gift_code \in BuiltGiftCodes :
          /\ ReportsLedgerStatus(gift_code)
          /\ StatusMovesForward(gift_code)
          /\ ClaimRejectedUnlessAvailable(gift_code)]_vars

\* A built gift code was claimed from the wallet that holds its account.
GiftCodeClaimSubmitted ==
    /\ gift_code_result.op = "claim_gift_code"
    /\ gift_code_result.result = <<"Ok">>

====
